---- MODULE Spec2Model ----
(***************************************************************************)
(* pycotracer: interpretation of CO-TRACER report records.                 *)
(*                                                                         *)
(* Python strings are modelled as sequences of one-character strings,      *)
(* Python dicts as functions whose DOMAIN is the set of keys present, and  *)
(* Python values as tagged records (str, float, datetime, bool, None).     *)
(* A call that can raise yields a record [exc, ...] whose exc field names  *)
(* the exception class, "none" when the call returns normally.             *)
(***************************************************************************)
EXTENDS Integers, Sequences, FiniteSets, TLC

(***************************************************************************)
(* Python values                                                           *)
(***************************************************************************)
None == [tag |-> "none"]
Str(s) == [tag |-> "str", s |-> s]
Bool(b) == [tag |-> "bool", b |-> b]
\* A finite float is m * 10^e with m not divisible by 10 (m = 0 has e = 0).
Float(m, e) == [tag |-> "float", kind |-> "fin", m |-> m, e |-> e]
FloatInf(sign) == [tag |-> "float", kind |-> "inf", m |-> sign, e |-> 0]
FloatNan == [tag |-> "float", kind |-> "nan", m |-> 0, e |-> 0]
DateTime(y, mo, d, h, mi, sec) ==
    [tag |-> "datetime", y |-> y, mo |-> mo, d |-> d, h |-> h, mi |-> mi, sec |-> sec]

Ok(v) == [exc |-> "none", val |-> v]
Raise(e) == [exc |-> e, val |-> None]

(***************************************************************************)
(* Characters                                                              *)
(***************************************************************************)
Digits == {"0", "1", "2", "3", "4", "5", "6", "7", "8", "9"}
DigitVal == "0" :> 0 @@ "1" :> 1 @@ "2" :> 2 @@ "3" :> 3 @@ "4" :> 4 @@
            "5" :> 5 @@ "6" :> 6 @@ "7" :> 7 @@ "8" :> 8 @@ "9" :> 9
\* Characters for which str.isspace() holds / the regex class \s matches.
Whitespace == {" ", "\t", "\n", "\r"}
UpperToLower ==
    "A" :> "a" @@ "B" :> "b" @@ "C" :> "c" @@ "D" :> "d" @@ "E" :> "e" @@ "F" :> "f" @@
    "G" :> "g" @@ "H" :> "h" @@ "I" :> "i" @@ "J" :> "j" @@ "K" :> "k" @@ "L" :> "l" @@
    "M" :> "m" @@ "N" :> "n" @@ "O" :> "o" @@ "P" :> "p" @@ "Q" :> "q" @@ "R" :> "r" @@
    "S" :> "s" @@ "T" :> "t" @@ "U" :> "u" @@ "V" :> "v" @@ "W" :> "w" @@ "X" :> "x" @@
    "Y" :> "y" @@ "Z" :> "z"
LowerChar(c) == IF c \in DOMAIN UpperToLower THEN UpperToLower[c] ELSE c
\* str.lower()
Lower(s) == [i \in 1..Len(s) |-> LowerChar(s[i])]

IsDigits(s) == \A i \in 1..Len(s) : s[i] \in Digits
\* int() of a string of decimal digits
RECURSIVE DigitsToInt(_)
DigitsToInt(s) ==
    IF Len(s) = 0 THEN 0
    ELSE 10 * DigitsToInt(SubSeq(s, 1, Len(s) - 1)) + DigitVal[s[Len(s)]]

\* str.strip(): drop leading and trailing whitespace
RECURSIVE LStrip(_)
LStrip(s) == IF Len(s) > 0 /\ s[1] \in Whitespace THEN LStrip(Tail(s)) ELSE s
RECURSIVE RStrip(_)
RStrip(s) ==
    IF Len(s) > 0 /\ s[Len(s)] \in Whitespace
    THEN RStrip(SubSeq(s, 1, Len(s) - 1)) ELSE s
Strip(s) == RStrip(LStrip(s))

\* Smallest index of a character of set cs in s, 0 when there is none.
FirstIndex(s, cs) ==
    IF \E i \in 1..Len(s) : s[i] \in cs
    THEN CHOOSE i \in 1..Len(s) : s[i] \in cs /\ \A j \in 1..(i - 1) : s[j] \notin cs
    ELSE 0

\* The characters of s before index i, and those after it.
Before(s, i) == SubSeq(s, 1, i - 1)
After(s, i) == SubSeq(s, i + 1, Len(s))

(***************************************************************************)
(* float(x), the amount conversion used by the three interpreters          *)
(***************************************************************************)
RECURSIVE Normalize(_, _)
Normalize(m, e) ==
    IF m = 0 THEN Float(0, 0)
    ELSE IF m % 10 = 0 THEN Normalize(m \div 10, e + 1)
    ELSE Float(m, e)

\* Exponent part after the "e": optional sign, then at least one digit.
ExponentOk(x) ==
    LET body == IF Len(x) > 0 /\ x[1] \in {"+", "-"} THEN Tail(x) ELSE x
    IN  Len(body) > 0 /\ IsDigits(body)
ExponentVal(x) ==
    IF x[1] = "-" THEN 0 - DigitsToInt(Tail(x))
    ELSE IF x[1] = "+" THEN DigitsToInt(Tail(x))
    ELSE DigitsToInt(x)

\* float() of a str: surrounding whitespace is stripped, then an optional
\* sign followed by inf / infinity / nan or by a decimal literal
\* digits [. digits] [e [sign] digits] with at least one mantissa digit.
\* The literal, split into integer part, fraction part and exponent.
FloatOfParts(neg, ipart, fpart, hasExp, expo) ==
    IF /\ IsDigits(ipart) /\ IsDigits(fpart)
       /\ Len(ipart) + Len(fpart) > 0
       /\ (hasExp => ExponentOk(expo))
    THEN Ok(Normalize((IF neg THEN -1 ELSE 1) * DigitsToInt(ipart \o fpart),
                      (IF hasExp THEN ExponentVal(expo) ELSE 0) - Len(fpart)))
    ELSE Raise("ValueError")
\* The mantissa, cut at its first "." (dpos, 0 when there is none).
FloatOfMantissa(neg, mant, dpos, hasExp, expo) ==
    IF dpos = 0 THEN FloatOfParts(neg, mant, <<>>, hasExp, expo)
    ELSE FloatOfParts(neg, Before(mant, dpos), After(mant, dpos), hasExp, expo)
\* The unsigned literal, cut at its first "e" (epos, 0 when there is none).
FloatOfLiteral(neg, lu, epos) ==
    IF epos = 0 THEN FloatOfMantissa(neg, lu, FirstIndex(lu, {"."}), FALSE, <<>>)
    ELSE FloatOfMantissa(neg, Before(lu, epos),
                         FirstIndex(Before(lu, epos), {"."}), TRUE, After(lu, epos))
\* The stripped text after its sign, lower-cased.
FloatOfUnsigned(neg, lu) ==
    IF lu \in {<<"i", "n", "f">>, <<"i", "n", "f", "i", "n", "i", "t", "y">>}
    THEN Ok(FloatInf(IF neg THEN -1 ELSE 1))
    ELSE IF lu = <<"n", "a", "n">> THEN Ok(FloatNan)
    ELSE FloatOfLiteral(neg, lu, FirstIndex(lu, {"e"}))
FloatOfStripped(t) ==
    IF Len(t) > 0 /\ t[1] \in {"+", "-"}
    THEN FloatOfUnsigned(t[1] = "-", Lower(Tail(t)))
    ELSE FloatOfUnsigned(FALSE, Lower(t))
FloatOfStr(s) == FloatOfStripped(Strip(s))

\* float(x) for any Python value: a float is returned as it is, a bool is
\* an int (True is 1.0), None and datetime have no __float__.
PyFloat(v) ==
    IF v.tag = "str" THEN FloatOfStr(v.s)
    ELSE IF v.tag = "float" THEN Ok(v)
    ELSE IF v.tag = "bool" THEN Ok(Float(IF v.b THEN 1 ELSE 0, 0))
    ELSE Raise("TypeError")

(***************************************************************************)
(* parse_iso_str: datetime.datetime.strptime(date_str,                     *)
(* '%Y-%m-%d %H:%M:%S').  strptime turns the format into the regular       *)
(* expression                                                              *)
(*   (\d\d\d\d)-(1[0-2]|0[1-9]|[1-9])-(3[0-1]|[1-2]\d|0[1-9]|[1-9]| [1-9]) *)
(*   \s+(2[0-3]|[0-1]\d|\d):([0-5]\d|\d):(6[0-1]|[0-5]\d|\d)               *)
(* which must match from the start and leave no unconverted data, and then *)
(* builds the datetime, which validates the calendar date and the time.    *)
(***************************************************************************)
Match_Y(t) == Len(t) = 4 /\ IsDigits(t)
\* As Match_m, but for zero-padded months only.
Match_m_padded(t) ==
    \/ Len(t) = 2 /\ t[1] = "1" /\ t[2] \in {"0", "1", "2"}
    \/ Len(t) = 2 /\ t[1] = "0" /\ t[2] \in Digits \ {"0"}
Match_m(t) ==
    \/ Len(t) = 2 /\ t[1] = "1" /\ t[2] \in {"0", "1", "2"}
    \/ Len(t) = 2 /\ t[1] = "0" /\ t[2] \in Digits \ {"0"}
    \/ Len(t) = 1 /\ t[1] \in Digits \ {"0"}
Match_d(t) ==
    \/ Len(t) = 2 /\ t[1] = "3" /\ t[2] \in {"0", "1"}
    \/ Len(t) = 2 /\ t[1] \in {"1", "2"} /\ t[2] \in Digits
    \/ Len(t) = 2 /\ t[1] = "0" /\ t[2] \in Digits \ {"0"}
    \/ Len(t) = 1 /\ t[1] \in Digits \ {"0"}
    \/ Len(t) = 2 /\ t[1] = " " /\ t[2] \in Digits \ {"0"}
Match_H(t) ==
    \/ Len(t) = 2 /\ t[1] = "2" /\ t[2] \in {"0", "1", "2", "3"}
    \/ Len(t) = 2 /\ t[1] \in {"0", "1"} /\ t[2] \in Digits
    \/ Len(t) = 1 /\ t[1] \in Digits
Match_M(t) ==
    \/ Len(t) = 2 /\ t[1] \in {"0", "1", "2", "3", "4", "5"} /\ t[2] \in Digits
    \/ Len(t) = 1 /\ t[1] \in Digits
Match_S(t) ==
    \/ Len(t) = 2 /\ t[1] = "6" /\ t[2] \in {"0", "1"}
    \/ Len(t) = 2 /\ t[1] \in {"0", "1", "2", "3", "4", "5"} /\ t[2] \in Digits
    \/ Len(t) = 1 /\ t[1] \in Digits

IsLeap(y) == y % 4 = 0 /\ (y % 100 # 0 \/ y % 400 = 0)
DaysInMonth(y, mo) ==
    IF mo = 2 THEN (IF IsLeap(y) THEN 29 ELSE 28)
    ELSE IF mo \in {4, 6, 9, 11} THEN 30 ELSE 31

\* datetime.datetime(y, mo, d, h, mi, sec): ValueError outside the ranges.
MakeDateTime(y, mo, d, h, mi, sec) ==
    IF /\ y \in 1..9999 /\ mo \in 1..12 /\ d \in 1..DaysInMonth(y, mo)
       /\ h \in 0..23 /\ mi \in 0..59 /\ sec \in 0..59
    THEN Ok(DateTime(y, mo, d, h, mi, sec))
    ELSE Raise("ValueError")

\* The day directive may carry a leading space (the alternative " [1-9]").
DayVal(t) == IF t[1] = " " THEN DigitVal[t[2]] ELSE DigitsToInt(t)

\* The directives are matched from left to right; got holds the numbers read
\* so far and r the text still to match.
Match_seconds(got, r) ==
    IF Match_S(r)
    THEN MakeDateTime(got[1], got[2], got[3], got[4], got[5], DigitsToInt(r))
    ELSE Raise("ValueError")
Match_minute_at(got, r, p) ==
    IF p > 0 /\ Match_M(Before(r, p))
    THEN Match_seconds(Append(got, DigitsToInt(Before(r, p))), After(r, p))
    ELSE Raise("ValueError")
Match_hour_at(got, r, p) ==
    IF p > 0 /\ Match_H(Before(r, p))
    THEN Match_minute_at(Append(got, DigitsToInt(Before(r, p))), After(r, p),
                         FirstIndex(After(r, p), {":"}))
    ELSE Raise("ValueError")
\* \s+ : at least one whitespace character, as many as there are
Match_whitespace(got, r) ==
    IF Len(r) > 0 /\ r[1] \in Whitespace
    THEN Match_hour_at(got, LStrip(r), FirstIndex(LStrip(r), {":"}))
    ELSE Raise("ValueError")
\* the day ends before index p of r
Match_day_at(got, r, p) ==
    IF p > 0 /\ p <= Len(r) /\ Match_d(Before(r, p))
    THEN Match_whitespace(Append(got, DayVal(Before(r, p))), SubSeq(r, p, Len(r)))
    ELSE Raise("ValueError")
\* the day is " [1-9]" when a space follows the dash, else it runs up to
\* the first whitespace
Match_day(got, r) ==
    IF Len(r) > 0 /\ r[1] = " " THEN Match_day_at(got, r, 3)
    ELSE Match_day_at(got, r, FirstIndex(r, Whitespace))
Match_month_at(got, r, p) ==
    IF p > 0 /\ Match_m(Before(r, p))
    THEN Match_day(Append(got, DigitsToInt(Before(r, p))), After(r, p))
    ELSE Raise("ValueError")
Match_year_at(s, p) ==
    IF p > 0 /\ Match_Y(Before(s, p))
    THEN Match_month_at(<<DigitsToInt(Before(s, p))>>, After(s, p),
                        FirstIndex(After(s, p), {"-"}))
    ELSE Raise("ValueError")
StrpTime(s) == Match_year_at(s, FirstIndex(s, {"-"}))

\* strptime() must be given a string: anything else is a TypeError.
parse_iso_str(date_str) ==
    IF date_str.tag = "str" THEN StrpTime(date_str.s) ELSE Raise("TypeError")

(***************************************************************************)
(* parse_yes_no_str                                                        *)
(***************************************************************************)
\* As parse_yes_no_str, but comparing bool_str itself with 'n' and 'y'.
parse_yes_no_str_cased(bool_str) ==
    IF bool_str.tag # "str" THEN Raise("AttributeError")
    ELSE IF bool_str.s = <<"n">> THEN Ok(Bool(FALSE))
    ELSE IF bool_str.s = <<"y">> THEN Ok(Bool(TRUE))
    ELSE Raise("ValueError")
\* bool_str.lower() exists on strings only: AttributeError otherwise.
parse_yes_no_str(bool_str) ==
    IF bool_str.tag # "str" THEN Raise("AttributeError")
    ELSE LET lower_bool_str == Lower(bool_str.s)
         IN  IF lower_bool_str = <<"n">> THEN Ok(Bool(FALSE))
             ELSE IF lower_bool_str = <<"y">> THEN Ok(Bool(TRUE))
             ELSE Raise("ValueError")

(***************************************************************************)
(* Field-group interpretation of one entry                                 *)
(***************************************************************************)
\* entry[key] = value on a dict
Put(d, k, v) == [x \in (DOMAIN d) \cup {k} |-> IF x = k THEN v ELSE d[x]]

\* As Lookup, but an absent key raises the ValueError the docstrings name.
LookupOrValueError(entry, key) ==
    IF key \in DOMAIN entry THEN Ok(entry[key]) ELSE Raise("ValueError")

\* entry[key]: KeyError when the key is absent
Lookup(entry, key) ==
    IF key \in DOMAIN entry THEN Ok(entry[key]) ELSE Raise("KeyError")

\* The three conversions the try blocks apply to entry[field].
Convert(conv, v) ==
    IF conv = "float" THEN PyFloat(v)
    ELSE IF conv = "parse_iso_str" THEN parse_iso_str(v)
    ELSE parse_yes_no_str(v)

\* conv(entry[field]): the lookup first, then the conversion
ConvertLooked(conv, got) == IF got.exc # "none" THEN got ELSE Convert(conv, got.val)
\* conv(entry[field]) for each field of a try block, in statement order
Conversions(entry, fields, conv) ==
    [i \in 1..Len(fields) |-> ConvertLooked(conv, Lookup(entry, fields[i]))]

\* The assignments that end a try block: the flag, then every field.
RECURSIVE AssignAll(_, _, _, _)
AssignAll(entry, fields, res, i) ==
    IF i > Len(fields) THEN entry
    ELSE AssignAll(Put(entry, fields[i], res[i].val), fields, res, i + 1)

\* Index of the first result that is an exception, 0 when there is none.
FirstRaise(res) ==
    IF \A i \in 1..Len(res) : res[i].exc = "none" THEN 0
    ELSE CHOOSE i \in 1..Len(res) :
             res[i].exc # "none" /\ \A j \in 1..(i - 1) : res[j].exc = "none"

\* As EndGroup, but with every field assigned as soon as it is converted.
EndGroupPartial(entry, fields, flag, caught, res, first) ==
    IF first = 0
    THEN [exc |-> "none",
          entry |-> Put(AssignAll(entry, fields, res, 1), flag, Bool(TRUE))]
    ELSE IF res[first].exc \in caught
    THEN [exc |-> "none",
          entry |-> Put(AssignAll(entry, SubSeq(fields, 1, first - 1), res, 1),
                        flag, Bool(FALSE))]
    ELSE [exc |-> res[first].exc,
          entry |-> AssignAll(entry, SubSeq(fields, 1, first - 1), res, 1)]

\* How a try block ends, res being its conversions and first the index of
\* the first that raised.  Every conversion is evaluated into a local before
\* anything is assigned: without an exception the flag and every field are
\* assigned; an exception named by an except clause sets the flag to False;
\* any other leaves the function with the entry as it is at that point.
EndGroup(entry, fields, flag, caught, res, first) ==
    IF first = 0
    THEN [exc |-> "none",
          entry |-> AssignAll(Put(entry, flag, Bool(TRUE)), fields, res, 1)]
    ELSE IF res[first].exc \in caught
    THEN [exc |-> "none", entry |-> Put(entry, flag, Bool(FALSE))]
    ELSE [exc |-> res[first].exc, entry |-> entry]

\* One try/except block over the fields of a group.
TryGroupOn(entry, fields, flag, caught, res) ==
    EndGroup(entry, fields, flag, caught, res, FirstRaise(res))
TryGroup(entry, fields, conv, flag, caught) ==
    TryGroupOn(entry, fields, flag, caught, Conversions(entry, fields, conv))

\* The three try blocks of an interpreter, one after the other; an exception
\* that leaves a block leaves the interpreter.
ThenBooleans(d, booleans, caught) ==
    IF d.exc # "none" THEN d
    ELSE TryGroup(d.entry, booleans, "parse_yes_no_str",
                  "BooleanFieldsInterpreted", caught)
ThenDates(a, dates, booleans, caught) ==
    IF a.exc # "none" THEN a
    ELSE ThenBooleans(TryGroup(a.entry, dates, "parse_iso_str",
                               "DatesInterpreted", caught),
                      booleans, caught)
ThreeGroups(entry, amounts, dates, booleans, caught) ==
    ThenDates(TryGroup(entry, amounts, "float", "AmountsInterpreted", caught),
              dates, booleans, caught)

ContributionAmounts == <<"ContributionAmount">>
ContributionDates == <<"ContributionDate", "FiledDate">>
ExpenditureAmounts == <<"ExpenditureAmount">>
ExpenditureDates == <<"ExpenditureDate", "FiledDate">>
LoanAmounts ==
    <<"PaymentAmount", "LoanAmount", "InterestRate", "InterestPayment", "LoanBalance">>
LoanDates == <<"PaymentDate", "FiledDate", "LoanDate">>
BooleanFields == <<"Amended", "Amendment">>

\* except clauses of interpret_contribution_entry
ContributionCaught == {"ValueError", "TypeError", "AttributeError"}
\* except clauses of interpret_expenditure_entry
ExpenditureCaught == {"ValueError"}
\* except clauses of interpret_loan_entry
LoanCaught == {"ValueError"}

interpret_contribution_entry(entry) ==
    ThreeGroups(entry, ContributionAmounts, ContributionDates, BooleanFields,
                ContributionCaught)

interpret_expenditure_entry(entry) ==
    ThreeGroups(entry, ExpenditureAmounts, ExpenditureDates, BooleanFields,
                ExpenditureCaught)

interpret_loan_entry(entry) ==
    ThreeGroups(entry, LoanAmounts, LoanDates, BooleanFields, LoanCaught)

(***************************************************************************)
(* Report types                                                            *)
(***************************************************************************)
REPORT_CONTRIB_DATA == "ContributionData"
REPORT_EXPEND_DATA == "ExpenditureData"
REPORT_LOAN_DATA == "LoanData"
REPORT_TYPES == <<REPORT_CONTRIB_DATA, REPORT_EXPEND_DATA, REPORT_LOAN_DATA>>
ReportTypeSet == {REPORT_TYPES[i] : i \in 1..Len(REPORT_TYPES)}

\* map(f, entries) of Python 2: eager and in order.  Each call edits its
\* own entry in place; the list is returned only if no call raises, and a
\* call that raises leaves the entries after it untouched.  res holds the
\* result of f on every entry and first is the index of the first raise.
MapResult(entries, res, first) ==
    IF first = 0
    THEN [exc |-> "none",
          entries |-> [i \in 1..Len(entries) |-> res[i].entry],
          out |-> [i \in 1..Len(entries) |-> res[i].entry]]
    ELSE [exc |-> res[first].exc,
          entries |-> [i \in 1..Len(entries) |->
                          IF i <= first THEN res[i].entry ELSE entries[i]],
          out |-> <<>>]
MapOver(entries, res) == MapResult(entries, res, FirstRaise(res))

interpret_contributions_data(entries) ==
    MapOver(entries, [i \in 1..Len(entries) |-> interpret_contribution_entry(entries[i])])
interpret_expenditure_data(entries) ==
    MapOver(entries, [i \in 1..Len(entries) |-> interpret_expenditure_entry(entries[i])])
interpret_loan_data(entries) ==
    MapOver(entries, [i \in 1..Len(entries) |-> interpret_loan_entry(entries[i])])

(***************************************************************************)
(* Inputs: the field values records are built from                         *)
(***************************************************************************)
\* at most this many group fields of a record deviate from the usual value
MaxOdd == 2
\* at most this many calls of an interpreter on the same entry
MaxPasses == 2

\* The texts of the field values, character by character.
Text ==
    [n100 |-> <<"1", "0", "0">>,
     n12_5 |-> <<"1", "2", ".", "5">>,
     n1e2_padded |-> <<" ", "1", "e", "2", " ">>,
     empty |-> <<>>,
     dollar5 |-> <<"$", "5">>,
     jan1 |-> <<"2", "0", "1", "3", "-", "0", "1", "-", "0", "1", " ", "0", "0", ":", "0", "0", ":", "0", "0">>,
     jan2 |-> <<"2", "0", "1", "3", "-", "0", "1", "-", "0", "2", " ", "0", "0", ":", "0", "0", ":", "0", "0">>,
     jan17 |-> <<"2", "0", "1", "3", "-", "0", "1", "-", "1", "7", " ", "0", "0", ":", "0", "0", ":", "0", "0">>,
     jan2_unpadded |-> <<"2", "0", "1", "3", "-", "1", "-", "2", " ", "0", ":", "0", ":", "0">>,
     date_only |-> <<"2", "0", "1", "3", "-", "0", "1", "-", "0", "1">>,
     Y |-> <<"Y">>,
     N |-> <<"N">>,
     n |-> <<"n">>,
     yes |-> <<"y", "e", "s">>,
     n7 |-> <<"7">>]

AmountFieldNames ==
    {"ContributionAmount", "ExpenditureAmount", "PaymentAmount", "LoanAmount",
     "InterestRate", "InterestPayment", "LoanBalance"}
DateFieldNames ==
    {"ContributionDate", "ExpenditureDate", "FiledDate", "PaymentDate", "LoanDate"}

\* The value a field usually has in a report, a second well-formed value,
\* and a malformed one.
UsualStr(field) ==
    IF field \in AmountFieldNames
    THEN (IF field = "InterestRate" THEN Text.n12_5 ELSE Text.n100)
    ELSE IF field \in DateFieldNames
    THEN (IF field = "FiledDate" THEN Text.jan2
          ELSE IF field = "LoanDate" THEN Text.jan17 ELSE Text.jan1)
    ELSE (IF field = "Amended" THEN Text.Y ELSE Text.N)
OtherStr(field) ==
    IF field \in AmountFieldNames THEN Text.n1e2_padded
    ELSE IF field \in DateFieldNames THEN Text.jan2_unpadded
    ELSE Text.n
MalformedStr(field) ==
    IF field \in AmountFieldNames THEN Text.dollar5
    ELSE IF field \in DateFieldNames THEN Text.date_only
    ELSE Text.yes

\* How a field of a record can deviate from its usual value.
Deviations == {"other", "malformed", "None", "absent"}

SeqToSet(q) == {q[i] : i \in 1..Len(q)}

\* The record with the usual value in every group field but those of dev.
RecordOf(fields, dev) ==
    LET present == {f \in fields : f \notin DOMAIN dev \/ dev[f] # "absent"}
    IN  [k \in present \cup {"RecordID"} |->
            IF k = "RecordID" THEN Str(Text.n7)
            ELSE IF k \notin DOMAIN dev THEN Str(UsualStr(k))
            ELSE IF dev[k] = "other" THEN Str(OtherStr(k))
            ELSE IF dev[k] = "malformed" THEN Str(MalformedStr(k))
            ELSE None]

RecordsOver(fields) ==
    {RecordOf(fields, dev) :
        dev \in UNION {[D -> Deviations] :
                         D \in {X \in SUBSET fields : Cardinality(X) <= MaxOdd}}}

\* The fields of the i-th group of a report type, in reading order.
GroupFieldsOf(rt, i) ==
    IF i = 3 THEN BooleanFields
    ELSE IF rt = REPORT_CONTRIB_DATA
    THEN (IF i = 1 THEN ContributionAmounts ELSE ContributionDates)
    ELSE IF rt = REPORT_EXPEND_DATA
    THEN (IF i = 1 THEN ExpenditureAmounts ELSE ExpenditureDates)
    ELSE (IF i = 1 THEN LoanAmounts ELSE LoanDates)

\* The group fields of a report type, and the first field of each group.
AllGroupFieldsOf(rt) == UNION {SeqToSet(GroupFieldsOf(rt, i)) : i \in 1..3}
FirstFieldsOf(rt) == [i \in 1..3 |-> GroupFieldsOf(rt, i)[1]]

\* The records of a report type the interpreters are given.
RecordsOfType(rt) == RecordsOver(AllGroupFieldsOf(rt))

(***************************************************************************)
(* State                                                                   *)
(***************************************************************************)
EmptyDict == [k \in {} |-> None]

VARIABLES
    category,   \* report type of the entry and of the interpreter called on it
    given,      \* the entry as it came from the report, before any call
    previous,   \* the entry as it was when the last call began
    entry,      \* the entry now (the interpreters edit it in place)
    outcome,    \* "idle", "returned", or the exception the last call raised
    passes,     \* number of interpreter calls on this entry so far
    batch,      \* the entries of a report as passed to a batch interpreter
    entries,    \* the same entries now (edited in place by the batch call)
    output,     \* the list the batch interpreter returned
    batchOutcome, \* "idle", "returned", or the exception the batch call raised
    site,       \* the TRACER site: the archive served at each URL
    call,       \* the retrieval function called and its arguments
    result,     \* what the call returned
    error,      \* "none", or the exception the call raised
    log,        \* get_url, get_zipped_file and interpreter calls it made
    parser,     \* "none", or the primitive parser that was called
    arg,        \* the value passed to the primitive parser
    ret,        \* what the primitive parser returned or raised
    database,   \* the MongoDB database: the documents of each collection
    passed,     \* the entry (or list of entries) the caller passed, as it is now
    op,         \* the persistence function called, its arguments and outcome
    trail,      \* the strategies and collection operations the call reached
    ops,        \* number of persistence calls so far
    mode,       \* "none", or how a pass over a batch takes its steps
    progress    \* for each record of the pass: the try blocks it completed
                \* (done), the exception that ended it (exc) and the order
                \* in which its blocks are run

entryVars == <<given, previous, entry, outcome, passes>>
batchVars == <<batch, entries, output, batchOutcome>>
retrievalVars == <<site, call, result, error, log>>
parseVars == <<parser, arg, ret>>
storeVars == <<database, passed, op, trail, ops>>
stepVars == <<mode, progress>>
vars == <<category, entryVars, batchVars, retrievalVars, parseVars, storeVars,
          stepVars>>

\* No entry is being interpreted.
NoEntry ==
    /\ given = EmptyDict
    /\ previous = EmptyDict
    /\ entry = EmptyDict
    /\ outcome = "idle"
    /\ passes = 0

\* No retrieval is going on.
NoCall == [fn |-> "none", year |-> 0, report_type |-> None]
NoRetrieval ==
    /\ site = EmptyDict
    /\ call = NoCall
    /\ result = None
    /\ error = "none"
    /\ log = <<>>

\* No primitive parser is being called.
NoParse ==
    /\ parser = "none"
    /\ arg = None
    /\ ret = Ok(None)

\* No batch is being interpreted.
NoBatch ==
    /\ batch = <<>>
    /\ entries = <<>>
    /\ output = <<>>
    /\ batchOutcome = "idle"

\* No pass over a batch is taking steps.
NoSteps ==
    /\ mode = "none"
    /\ progress = <<>>

\* A database whose collections hold no document yet.
EmptyDatabase == [contributions |-> <<>>, expenditures |-> <<>>, loans |-> <<>>]
NoOp == [fn |-> "none", module |-> "none", entry |-> EmptyDict,
         report_type |-> None, reassign_id |-> FALSE, force_copy |-> FALSE,
         reversed |-> FALSE, exc |-> "none", val |-> None, same |-> FALSE]
\* Nothing is being stored.
NoStore ==
    /\ database = EmptyDatabase
    /\ passed = EmptyDict
    /\ op = NoOp
    /\ trail = <<>>
    /\ ops = 0

Init ==
    /\ category \in ReportTypeSet
    /\ given \in RecordsOfType(category)
    /\ previous = given
    /\ entry = given
    /\ outcome = "idle"
    /\ passes = 0
    /\ NoBatch
    /\ NoRetrieval
    /\ NoParse
    /\ NoStore
    /\ NoSteps

Outcome(res) == IF res.exc = "none" THEN "returned" ELSE res.exc

\* A caller passes the entry to an interpreter and gets res.
Called(res) ==
    /\ passes < MaxPasses
    /\ previous' = entry
    /\ entry' = res.entry
    /\ outcome' = Outcome(res)
    /\ passes' = passes + 1
    /\ UNCHANGED <<category, given, batchVars, retrievalVars, parseVars, storeVars, stepVars>>

InterpretContribution ==
    /\ category = REPORT_CONTRIB_DATA
    /\ Called(interpret_contribution_entry(entry))

InterpretExpenditure ==
    /\ category = REPORT_EXPEND_DATA
    /\ Called(interpret_expenditure_entry(entry))

InterpretLoan ==
    /\ category = REPORT_LOAN_DATA
    /\ Called(interpret_loan_entry(entry))

Next ==
    \/ InterpretContribution
    \/ InterpretExpenditure
    \/ InterpretLoan

Spec == Init /\ [][Next]_vars

(***************************************************************************)
(* Batch interpretation of the entries of a report                         *)
(***************************************************************************)
\* at most this many entries in a batch
MaxBatch == 2

\* The usual record of a report type and the records that deviate from it
\* in the first field of one group.
SampleRecords(rt) ==
    {RecordOf(AllGroupFieldsOf(rt), EmptyDict)} \cup
    {RecordOf(AllGroupFieldsOf(rt), [f \in {first} |-> d]) :
        first \in {FirstFieldsOf(rt)[i] : i \in 1..3}, d \in Deviations}

Batches(rt) == UNION {[1..n -> SampleRecords(rt)] : n \in 0..MaxBatch}

InitBatch ==
    /\ category \in ReportTypeSet
    /\ batch \in Batches(category)
    /\ entries = batch
    /\ output = <<>>
    /\ batchOutcome = "idle"
    /\ NoEntry
    /\ NoRetrieval
    /\ NoParse
    /\ NoStore
    /\ NoSteps

\* A caller passes the entries to a batch interpreter and gets res.
BatchCalled(res) ==
    /\ batchOutcome = "idle"
    /\ entries' = res.entries
    /\ output' = res.out
    /\ batchOutcome' = Outcome(res)
    /\ UNCHANGED <<category, batch, entryVars, retrievalVars, parseVars, storeVars, stepVars>>

InterpretContributionsData ==
    /\ category = REPORT_CONTRIB_DATA
    /\ BatchCalled(interpret_contributions_data(entries))

InterpretExpenditureData ==
    /\ category = REPORT_EXPEND_DATA
    /\ BatchCalled(interpret_expenditure_data(entries))

InterpretLoanData ==
    /\ category = REPORT_LOAN_DATA
    /\ BatchCalled(interpret_loan_data(entries))

NextBatch ==
    \/ InterpretContributionsData
    \/ InterpretExpenditureData
    \/ InterpretLoanData

SpecBatch == InitBatch /\ [][NextBatch]_vars

(***************************************************************************)
(* Retrieval: URL, download, CSV rows, interpretation                      *)
(***************************************************************************)
TRACER_DOMAIN == "http://tracer.sos.colorado.gov/"
\* DOWNLOADS_URL is 'PublicSite/Docs/BulkDataDownloads/%d_%s.csv.zip':
\* a URL is kept as the pieces the two conversions are put between.
DOWNLOADS_URL(year_text, type_text) ==
    <<"PublicSite/Docs/BulkDataDownloads/", year_text, "_", type_text, ".csv.zip">>
BASE_URL(year_text, type_text) == <<TRACER_DOMAIN>> \o DOWNLOADS_URL(year_text, type_text)

CONTRIB_STR == REPORT_CONTRIB_DATA
EXPEND_STR == REPORT_EXPEND_DATA
LOAN_STR == REPORT_LOAN_DATA
\* As REPORT_TYPE_INTERPRETERS, with the first two entries exchanged.
SwappedInterpreters ==
    CONTRIB_STR :> "interpret_expenditure_data" @@
    EXPEND_STR :> "interpret_contributions_data" @@
    LOAN_STR :> "interpret_loan_data"

REPORT_TYPE_INTERPRETERS ==
    CONTRIB_STR :> "interpret_contributions_data" @@
    EXPEND_STR :> "interpret_expenditure_data" @@
    LOAN_STR :> "interpret_loan_data"

\* interpreter(raw_report) for the function REPORT_TYPE_INTERPRETERS names
CallInterpreter(interpreter, raw_report) ==
    IF interpreter = "interpret_contributions_data"
    THEN interpret_contributions_data(raw_report)
    ELSE IF interpreter = "interpret_expenditure_data"
    THEN interpret_expenditure_data(raw_report)
    ELSE interpret_loan_data(raw_report)

\* '%d' % n for n >= 0
DigitChar == [n \in 0..9 |-> CHOOSE c \in Digits : DigitVal[c] = n]
RECURSIVE FormatD(_)
FormatD(n) == IF n < 10 THEN <<DigitChar[n]>> ELSE FormatD(n \div 10) \o <<DigitChar[n % 10]>>
\* '%s' % v for a report type argument
FormatS(v) == IF v.tag = "str" THEN v.s ELSE "None"

get_url(year, report_type) == BASE_URL(FormatD(year), FormatS(report_type))

\* As is_valid_report_type, but accepting every report type.
AnyReportTypeIsValid(report_type) == TRUE

is_valid_report_type(report_type) ==
    report_type.tag = "str" /\ report_type.s \in ReportTypeSet

\* urlopen fails for a URL the site does not serve; the first file of the
\* archive is extracted.
get_zipped_file(s, url) ==
    IF url \notin DOMAIN s THEN Raise("HTTPError")
    ELSE IF Len(s[url]) = 0 THEN Raise("IndexError")
    ELSE Ok(s[url][1])

\* The key csv.DictReader files surplus cells under (restkey, None).
NoneKey == "<None>"
List(items) == [tag |-> "list", items |-> items]

\* One row of csv.DictReader: the cells under the field names, None for the
\* field names a short row has no cell for, the surplus cells of a long row
\* as a list under the key None.
RowDict(fieldnames, row) ==
    LET lf == Len(fieldnames)
        lr == Len(row)
        names == SeqToSet(fieldnames)
        \* dict(zip(fieldnames, row)): the last cell under a name wins
        cell(name) ==
            LET at == {i \in 1..lf : fieldnames[i] = name}
                last == CHOOSE i \in at : \A j \in at : j <= i
            IN  IF last <= lr THEN Str(row[last]) ELSE None
    IN  [k \in names \cup (IF lf < lr THEN {NoneKey} ELSE {}) |->
            IF k = NoneKey /\ k \notin names
            THEN List([i \in 1..(lr - lf) |-> Str(row[lf + i])])
            ELSE cell(k)]

\* The rows of csv.DictReader over a file: the first line gives the field
\* names, empty lines are skipped.
RECURSIVE DictRows(_, _)
DictRows(fieldnames, rows) ==
    IF Len(rows) = 0 THEN <<>>
    ELSE IF Len(Head(rows)) = 0 THEN DictRows(fieldnames, Tail(rows))
    ELSE <<RowDict(fieldnames, Head(rows))>> \o DictRows(fieldnames, Tail(rows))
DictReader(file) == DictRows(file.header, file.rows)

Returned(v, lg) == [exc |-> "none", val |-> v, log |-> lg]
Raised(e, lg) == [exc |-> e, val |-> None, log |-> lg]

\* get_report_raw once the report type is valid and the URL is built
DownloadReport(s, year, report_type, url, raw_contents) ==
    IF raw_contents.exc # "none"
    THEN Raised(raw_contents.exc,
                <<<<"get_url", year, report_type>>, <<"get_zipped_file", url>>>>)
    ELSE Returned(DictReader(raw_contents.val),
                  <<<<"get_url", year, report_type>>, <<"get_zipped_file", url>>>>)
DownloadFrom(s, year, report_type, url) ==
    DownloadReport(s, year, report_type, url, get_zipped_file(s, url))

get_report_raw(s, year, report_type) ==
    IF ~is_valid_report_type(report_type) THEN Raised("ValueError", <<>>)
    ELSE DownloadFrom(s, year, report_type, get_url(year, report_type))

\* return interpreter(raw_report)
InterpretedBy(interpreter, raw_report, done) ==
    IF done.exc # "none"
    THEN Raised(done.exc, raw_report.log \o <<<<"interpreter", interpreter>>>>)
    ELSE Returned(done.out, raw_report.log \o <<<<"interpreter", interpreter>>>>)
\* As InterpretWith, but the records the interpreter returns are passed
\* through it a second time.
InterpretWithAgain(interpreter, raw_report) ==
    InterpretedBy(interpreter, raw_report,
                  IF CallInterpreter(interpreter, raw_report.val).exc # "none"
                  THEN CallInterpreter(interpreter, raw_report.val)
                  ELSE CallInterpreter(interpreter,
                           CallInterpreter(interpreter, raw_report.val).out))
\* interpreter = REPORT_TYPE_INTERPRETERS[report_type]
InterpretWith(interpreter, raw_report) ==
    InterpretedBy(interpreter, raw_report, CallInterpreter(interpreter, raw_report.val))
\* get_report_interpreted once the report type is valid and the raw report
\* is at hand
InterpretRaw(report_type, raw_report) ==
    IF raw_report.exc # "none" THEN raw_report
    ELSE IF report_type.s \notin DOMAIN REPORT_TYPE_INTERPRETERS
    THEN Raised("KeyError", raw_report.log)
    ELSE InterpretWith(REPORT_TYPE_INTERPRETERS[report_type.s], raw_report)

get_report_interpreted(s, year, report_type) ==
    IF ~is_valid_report_type(report_type) THEN Raised("ValueError", <<>>)
    ELSE InterpretRaw(report_type, get_report_raw(s, year, report_type))

\* The list comprehension of get_report: one section per report type, in
\* order, up to the first that raises; then dict(zip(REPORT_TYPES, ...)).
RECURSIVE ReportSections(_, _, _, _, _)
NextSection(s, year, i, sections, lg, section) ==
    IF section.exc # "none" THEN Raised(section.exc, lg \o section.log)
    ELSE ReportSections(s, year, i + 1, Append(sections, section.val),
                        lg \o section.log)
ReportSections(s, year, i, sections, lg) ==
    IF i > Len(REPORT_TYPES)
    THEN Returned([t \in ReportTypeSet |->
                      sections[CHOOSE j \in 1..Len(REPORT_TYPES) : REPORT_TYPES[j] = t]],
                  lg)
    ELSE NextSection(s, year, i, sections, lg,
                     get_report_interpreted(s, year, Str(REPORT_TYPES[i])))

\* As get_report, but the sections are zipped with the report types in
\* reverse order.
get_report_misaligned(s, year, report_type) ==
    IF report_type.tag # "none" THEN get_report_interpreted(s, year, report_type)
    ELSE IF ReportSections(s, year, 1, <<>>, <<>>).exc # "none"
    THEN ReportSections(s, year, 1, <<>>, <<>>)
    ELSE Returned([t \in ReportTypeSet |->
                      ReportSections(s, year, 1, <<>>, <<>>).val[
                          REPORT_TYPES[Len(REPORT_TYPES) + 1
                              - (CHOOSE j \in 1..Len(REPORT_TYPES) :
                                    REPORT_TYPES[j] = t)]]],
                  ReportSections(s, year, 1, <<>>, <<>>).log)

get_report(s, year, report_type) ==
    IF report_type.tag = "none" THEN ReportSections(s, year, 1, <<>>, <<>>)
    ELSE get_report_interpreted(s, year, report_type)

\* The years and report type arguments callers ask for.
Years == {2012, 2013}
ReportTypeArgs == {Str(t) : t \in ReportTypeSet} \cup {Str("_invalid_type")}

\* at most this many lines after the header in the file under test
MaxRows == 2

\* The columns of a report file.
HeaderOf(rt) ==
    GroupFieldsOf(rt, 1) \o GroupFieldsOf(rt, 2) \o GroupFieldsOf(rt, 3) \o <<"RecordID">>
\* The usual line of a report of a year; the record id tells the year.
UsualRow(rt, year) ==
    [i \in 1..Len(HeaderOf(rt)) |->
        IF HeaderOf(rt)[i] = "RecordID" THEN FormatD(year)
        ELSE UsualStr(HeaderOf(rt)[i])]
\* Lines of a report: the usual one, one with a malformed first cell, one
\* cut short before the boolean columns, one with a surplus cell, an empty one.
RowsOf(rt, year) ==
    LET usual == UsualRow(rt, year)
    IN  {usual,
         [usual EXCEPT ![1] = MalformedStr(HeaderOf(rt)[1])],
         SubSeq(usual, 1, Len(usual) - 3),
         usual \o <<Text.n7>>,
         <<>>}
\* Files of a report: all the columns or all but the last two, and up to
\* MaxRows lines.
FilesOf(rt, year) ==
    {[header |-> h, rows |-> rows] :
        h \in {HeaderOf(rt), SubSeq(HeaderOf(rt), 1, Len(HeaderOf(rt)) - 2)},
        rows \in UNION {[1..n -> RowsOf(rt, year)] : n \in 0..MaxRows}}
UsualFile(rt, year) == [header |-> HeaderOf(rt), rows |-> <<UsualRow(rt, year)>>]

\* The site serves one archive per year and report type; every archive
\* holds the usual file but the one at (year0, rt0), which holds file0.
SiteWith(year0, rt0, file0) ==
    [url \in {get_url(y, Str(t)) : y \in Years, t \in ReportTypeSet} |->
        LET y == CHOOSE y \in Years : \E t \in ReportTypeSet : get_url(y, Str(t)) = url
            t == CHOOSE t \in ReportTypeSet : get_url(y, Str(t)) = url
        IN  IF y = year0 /\ t = rt0 THEN <<file0>> ELSE <<UsualFile(t, y)>>]
Sites ==
    UNION {{SiteWith(y, t, f) : f \in FilesOf(t, y)} :
              y \in Years, t \in ReportTypeSet}

InitRetrieval ==
    /\ site \in Sites
    /\ call = NoCall
    /\ result = None
    /\ error = "none"
    /\ log = <<>>
    /\ category = "none"
    /\ NoEntry
    /\ NoBatch
    /\ NoParse
    /\ NoStore
    /\ NoSteps

\* A caller calls a retrieval function and gets res.
RetrievalCalled(fn, year, report_type, res) ==
    /\ call = NoCall
    /\ call' = [fn |-> fn, year |-> year, report_type |-> report_type]
    /\ result' = res.val
    /\ error' = res.exc
    /\ log' = res.log
    /\ UNCHANGED <<site, category, entryVars, batchVars, parseVars, storeVars, stepVars>>

GetReportRaw ==
    \E year \in Years, report_type \in ReportTypeArgs :
        RetrievalCalled("get_report_raw", year, report_type,
                        get_report_raw(site, year, report_type))

GetReportInterpreted ==
    \E year \in Years, report_type \in ReportTypeArgs :
        RetrievalCalled("get_report_interpreted", year, report_type,
                        get_report_interpreted(site, year, report_type))

GetReport ==
    \E year \in Years, report_type \in ReportTypeArgs \cup {None} :
        RetrievalCalled("get_report", year, report_type,
                        get_report(site, year, report_type))

NextRetrieval ==
    \/ GetReportRaw
    \/ GetReportInterpreted
    \/ GetReport

SpecRetrieval == InitRetrieval /\ [][NextRetrieval]_vars

(***************************************************************************)
(* Calls of the primitive parsers                                          *)
(***************************************************************************)
\* Timestamps put together from the usual text of each part (the first of
\* each set) and from texts that deviate from it.
Timestamps ==
    {y \o dash \o m \o dash \o d \o gap \o h \o <<":">> \o mi \o <<":">> \o sec \o tail :
        y \in {<<"2", "0", "1", "3">>, <<"2", "1", "3">>, <<"0", "0", "0", "0">>},
        dash \in {<<"-">>, <<"/">>},
        m \in {<<"0", "1">>, <<"1">>, <<"0", "2">>, <<"1", "3">>},
        d \in {<<"0", "2">>, <<"2">>, <<" ", "2">>, <<"3", "0">>, <<"3", "2">>},
        gap \in {<<" ">>, <<" ", " ">>, <<"\t">>, <<"T">>, <<>>},
        h \in {<<"0", "3">>, <<"3">>, <<"2", "4">>},
        mi \in {<<"0", "4">>, <<"4">>, <<"6", "0">>},
        sec \in {<<"0", "5">>, <<"5">>, <<"6", "0">>},
        tail \in {<<>>, <<" ">>}}
\* What callers pass as date_str: timestamps, a date without a time, the
\* empty string, and values that are not strings.
DateArgs ==
    {Str(t) : t \in Timestamps} \cup
    {Str(Text.date_only), Str(Text.empty), None, Float(1, 2), Bool(TRUE),
     DateTime(2013, 1, 2, 3, 4, 5)}

\* What callers pass to the primitive parsers: the above, yes / no texts,
\* amount texts, and other texts.
ParserArgs ==
    DateArgs \cup
    {Str(t) : t \in {<<"Y">>, <<"y">>, <<"N">>, <<"n">>, <<"y", "e", "s">>,
                     <<"N", "o">>, <<" ", "Y">>, <<"Y", "N">>, <<"t", "r", "u", "e">>,
                     <<"1", "0", "0">>, <<"1", "2", ".", "5">>, <<"-", "7">>,
                     <<"+", ".", "5">>, <<"1", "0", ".">>, <<" ", "1", "e", "2", " ">>,
                     <<"1", "E", "-", "2">>, <<"$", "5">>, <<"1", ",", "0", "0", "0">>,
                     <<"a", "b", "c">>, <<"1", "0", "0", " ", "U", "S", "D">>,
                     <<".">>, <<"-">>, <<"1", "e">>, <<"1", ".", "2", ".", "3">>,
                     <<"n", "a", "n">>, <<"i", "n", "f">>,
                     <<"-", "I", "n", "f", "i", "n", "i", "t", "y">>, <<" ">>}} \cup
    {Float(125, -1), Bool(FALSE)}

InitParse ==
    /\ parser = "none"
    /\ arg \in ParserArgs
    /\ ret = Ok(None)
    /\ category = "none"
    /\ NoEntry
    /\ NoBatch
    /\ NoRetrieval
    /\ NoStore
    /\ NoSteps

\* A caller passes arg to a primitive parser and gets res.
ParserCalled(name, res) ==
    /\ parser = "none"
    /\ parser' = name
    /\ ret' = res
    /\ UNCHANGED <<arg, category, entryVars, batchVars, retrievalVars, storeVars, stepVars>>

ParseIsoStr == ParserCalled("parse_iso_str", parse_iso_str(arg))

ParseYesNoStr == ParserCalled("parse_yes_no_str", parse_yes_no_str(arg))

CallFloat == ParserCalled("float", PyFloat(arg))

NextParse ==
    \/ ParseIsoStr
    \/ ParseYesNoStr
    \/ CallFloat

SpecParse == InitParse /\ [][NextParse]_vars

(***************************************************************************)
(* Vocabulary of the properties                                            *)
(***************************************************************************)
GroupNames == <<"amounts", "dates", "booleans">>
GroupSet == SeqToSet(GroupNames)
GroupIndex(g) == CHOOSE i \in 1..Len(GroupNames) : GroupNames[i] = g

FlagOf(g) ==
    IF g = "amounts" THEN "AmountsInterpreted"
    ELSE IF g = "dates" THEN "DatesInterpreted"
    ELSE "BooleanFieldsInterpreted"
StatusKeys == {FlagOf(g) : g \in GroupSet}

\* The fields of a group of a report type, in the order they are read.
GroupFields(rt, g) ==
    IF g = "booleans" THEN BooleanFields
    ELSE IF rt = REPORT_CONTRIB_DATA
    THEN (IF g = "amounts" THEN ContributionAmounts ELSE ContributionDates)
    ELSE IF rt = REPORT_EXPEND_DATA
    THEN (IF g = "amounts" THEN ExpenditureAmounts ELSE ExpenditureDates)
    ELSE (IF g = "amounts" THEN LoanAmounts ELSE LoanDates)
GroupFieldSet(rt, g) == SeqToSet(GroupFields(rt, g))
AllGroupFields(rt) == UNION {GroupFieldSet(rt, g) : g \in GroupSet}

\* The typed value each well-formed input string stands for.
ExpectedAmount ==
    Text.n100 :> Float(1, 2) @@ Text.n12_5 :> Float(125, -1) @@ Text.n1e2_padded :> Float(1, 2)
ExpectedDate ==
    Text.jan1 :> DateTime(2013, 1, 1, 0, 0, 0) @@ Text.jan2 :> DateTime(2013, 1, 2, 0, 0, 0) @@
    Text.jan17 :> DateTime(2013, 1, 17, 0, 0, 0) @@
    Text.jan2_unpadded :> DateTime(2013, 1, 2, 0, 0, 0)
ExpectedBool ==
    Text.Y :> Bool(TRUE) @@ Text.N :> Bool(FALSE) @@ Text.n :> Bool(FALSE)
Expected(g) ==
    IF g = "amounts" THEN ExpectedAmount
    ELSE IF g = "dates" THEN ExpectedDate ELSE ExpectedBool

IsStr(v) == v.tag = "str"
\* Field f of record r is present, a string, and well-formed for group g.
Parses(r, g, f) == f \in DOMAIN r /\ IsStr(r[f]) /\ r[f].s \in DOMAIN Expected(g)
AllParse(r, rt, g) == \A f \in GroupFieldSet(rt, g) : Parses(r, g, f)
AllStrings(r, rt) == \A f \in AllGroupFields(rt) : f \in DOMAIN r /\ IsStr(r[f])

\* Group g of entry e is wholly converted from record r, flag true.
GroupConverted(e, r, rt, g) ==
    /\ FlagOf(g) \in DOMAIN e /\ e[FlagOf(g)] = Bool(TRUE)
    /\ \A f \in GroupFieldSet(rt, g) :
           f \in DOMAIN e /\ e[f] = Expected(g)[r[f].s]
\* Group g of entry e holds what record r held (absent stays absent).
GroupUntouched(e, r, rt, g) ==
    \A f \in GroupFieldSet(rt, g) :
        (f \in DOMAIN e <=> f \in DOMAIN r) /\ (f \in DOMAIN r => e[f] = r[f])
\* Group g of entry e is wholly original, flag false.
GroupFailed(e, r, rt, g) ==
    /\ FlagOf(g) \in DOMAIN e /\ e[FlagOf(g)] = Bool(FALSE)
    /\ GroupUntouched(e, r, rt, g)

(***************************************************************************)
(* C1: on a record whose group fields are all present as strings, each     *)
(* group is converted as a whole: if every field of the group parses,      *)
(* every field holds its typed value and the group's flag is true; if one  *)
(* fails to parse, every field holds its original string and the flag is   *)
(* false.  No group is converted in part.                                  *)
(***************************************************************************)
C1_GroupsAreTransactional ==
    (passes = 1 /\ AllStrings(given, category)) =>
        /\ outcome = "returned"
        /\ \A g \in GroupSet :
               IF AllParse(given, category, g)
               THEN GroupConverted(entry, given, category, g)
               ELSE GroupFailed(entry, given, category, g)

\* A loan record of strings whose amounts all parse and whose dates group
\* has both a field that parses and one that does not.
C1_Witness ==
    /\ passes = 1
    /\ category = REPORT_LOAN_DATA
    /\ AllStrings(given, category)
    /\ AllParse(given, category, "amounts")
    /\ Parses(given, "dates", "PaymentDate")
    /\ ~Parses(given, "dates", "LoanDate")
    /\ entry["DatesInterpreted"] = Bool(FALSE)
    /\ entry["AmountsInterpreted"] = Bool(TRUE)

\* Why field f of group g of record r does or does not convert.
FieldKind(r, g, f) ==
    IF f \notin DOMAIN r THEN "absent"
    ELSE IF ~IsStr(r[f]) THEN "nonstr"
    ELSE IF r[f].s \in DOMAIN Expected(g) THEN "ok"
    ELSE "malformed"
\* The kind of the first field of group g, in reading order, that does not
\* convert; "ok" when all do.
FirstBadKind(r, rt, g) ==
    LET fs == GroupFields(rt, g)
        bad == {i \in 1..Len(fs) : FieldKind(r, g, fs[i]) # "ok"}
    IN  IF bad = {} THEN "ok"
        ELSE FieldKind(r, g, fs[CHOOSE i \in bad : \A j \in bad : i <= j])
HasAbsent(r, rt, g) == \E f \in GroupFieldSet(rt, g) : f \notin DOMAIN r
HasNonStr(r, rt, g) == \E f \in GroupFieldSet(rt, g) : f \in DOMAIN r /\ ~IsStr(r[f])
AllPresent(r, rt) == \A f \in AllGroupFields(rt) : f \in DOMAIN r
PresentAreStrings(r, rt) == \A f \in AllGroupFields(rt) : f \in DOMAIN r => IsStr(r[f])
\* Group g as the interpreter is said to leave it: converted or failed.
AsUsual(e, r, rt, g) ==
    IF AllParse(r, rt, g) THEN GroupConverted(e, r, rt, g) ELSE GroupFailed(e, r, rt, g)
Earlier(g) == {h \in GroupSet : GroupIndex(h) < GroupIndex(g)}
FromOn(g) == {h \in GroupSet : GroupIndex(h) >= GroupIndex(g)}

C3_NonStringIsGroupFailure ==
    (passes = 1 /\ AllPresent(given, category)) =>
        /\ outcome \notin {"ValueError", "TypeError", "AttributeError"}
        /\ \A g \in GroupSet :
               HasNonStr(given, category, g) => GroupFailed(entry, given, category, g)

InterpreterOf(rt, e) ==
    IF rt = REPORT_CONTRIB_DATA THEN interpret_contribution_entry(e)
    ELSE IF rt = REPORT_EXPEND_DATA THEN interpret_expenditure_entry(e)
    ELSE interpret_loan_entry(e)
\* What entry e holds for group g: its flag (if any) and its fields.
GroupView(e, rt, g) ==
    [k \in (GroupFieldSet(rt, g) \cup {FlagOf(g)}) \cap DOMAIN e |-> e[k]]

(***************************************************************************)
(* C4 as specified: the flag and the field values of a group depend only on  *)
(* that group's own input fields: two records of a category that agree on  *)
(* the fields of a group come out with the same flag and the same values   *)
(* in that group.  (Stated on records that have all their group fields.)   *)
(***************************************************************************)
C4_GroupsAreIndependent ==
    (passes = 1 /\ AllPresent(given, category)) =>
        \A g \in GroupSet :
            \A r \in RecordsOfType(category) :
                (/\ AllPresent(r, category)
                 /\ \A f \in GroupFieldSet(category, g) : r[f] = given[f]) =>
                    GroupView(InterpreterOf(category, r).entry, category, g)
                        = GroupView(entry, category, g)

(***************************************************************************)
(* C5 as specified: the interpreted record has exactly the keys of the input *)
(* plus the three status keys, each a boolean, and every field outside the *)
(* groups is unchanged.  (Stated on records that have all their group      *)
(* fields.)                                                                *)
(***************************************************************************)
C5_KeysPlusThreeFlags ==
    (passes = 1 /\ AllPresent(given, category)) =>
        /\ DOMAIN entry = (DOMAIN given) \cup StatusKeys
        /\ \A k \in StatusKeys : entry[k].tag = "bool"
        /\ \A k \in (DOMAIN given) \ AllGroupFields(category) : entry[k] = given[k]

AllFlagsTrue(e) == \A k \in StatusKeys : k \in DOMAIN e /\ e[k] = Bool(TRUE)

(***************************************************************************)
(* C8 as specified: a second call on an entry whose three groups all       *)
(* succeeded returns normally and leaves the entry as the first call left  *)
(* it: the same typed values, all three flags still true.                  *)
(***************************************************************************)
C8_SecondPassIsIdentity ==
    (passes = 2 /\ AllFlagsTrue(previous)) =>
        /\ outcome = "returned"
        /\ entry = previous

(***************************************************************************)
(* C6 as specified: a batch of N records, malformed ones included, comes   *)
(* back as N records, the i-th being the interpretation of the i-th input; *)
(* a malformed record does not keep the others from being interpreted and  *)
(* returned.  (Stated on records that have all their group fields.)        *)
(***************************************************************************)
C6_OneOutputPerInput ==
    (/\ batchOutcome # "idle"
     /\ \A i \in 1..Len(batch) : AllPresent(batch[i], category)) =>
        /\ batchOutcome = "returned"
        /\ Len(output) = Len(batch)
        /\ \A i \in 1..Len(batch) :
               \A g \in GroupSet :
                   IF \A f \in GroupFieldSet(category, g) : Parses(batch[i], g, f)
                   THEN GroupConverted(output[i], batch[i], category, g)
                   ELSE GroupFailed(output[i], batch[i], category, g)

RecognizedTypes == {"ContributionData", "ExpenditureData", "LoanData"}
CalledWithType == call.fn # "none" /\ call.report_type.tag = "str"

(***************************************************************************)
(* C7: get_report_raw, get_report_interpreted and get_report with an       *)
(* explicit report type raise ValueError when the report type is not one   *)
(* of the three recognized ones, and they do so before a URL is built, an  *)
(* archive is fetched or a record is interpreted.                          *)
(***************************************************************************)
C7_UnknownTypeFailsFirst ==
    (CalledWithType /\ call.report_type.s \notin RecognizedTypes) =>
        /\ error = "ValueError"
        /\ log = <<>>
        /\ result = None

\* get_report was called with an unrecognized report type and raised.
C7_Witness ==
    /\ call.fn = "get_report"
    /\ call.report_type = Str("_invalid_type")
    /\ error = "ValueError"

OwnInterpreter(rt, raw_report) ==
    IF rt = "ContributionData" THEN interpret_contributions_data(raw_report)
    ELSE IF rt = "ExpenditureData" THEN interpret_expenditure_data(raw_report)
    ELSE interpret_loan_data(raw_report)
InterpretedAsOwnType(raw, done) ==
    /\ raw.exc = "none"
    /\ error = done.exc
    /\ done.exc = "none" => result = done.out
    /\ call.report_type.s = "ContributionData" =>
           \A i \in 1..Len(raw.val) :
               (\A g \in GroupSet : AllParse(raw.val[i], "ContributionData", g)) =>
                   /\ error = "none"
                   /\ \A g \in GroupSet :
                          GroupConverted(result[i], raw.val[i], "ContributionData", g)

(***************************************************************************)
(* C9: get_report_interpreted(year, report_type) is the interpreter of     *)
(* that report type applied to the records get_report_raw gives for the    *)
(* same year and type; in particular a contribution record whose five      *)
(* group fields are well-formed comes back with a float amount, datetimes  *)
(* for both dates, booleans for Amended and Amendment and the three flags  *)
(* true.                                                                   *)
(***************************************************************************)
C9_InterpretedByOwnType ==
    (/\ call.fn = "get_report_interpreted"
     /\ call.report_type.tag = "str"
     /\ call.report_type.s \in RecognizedTypes) =>
        InterpretedAsOwnType(
            get_report_raw(site, call.year, call.report_type),
            OwnInterpreter(call.report_type.s,
                           get_report_raw(site, call.year, call.report_type).val))

\* The contribution report of 2013 came back interpreted: its first record
\* holds the amount 100.0, the two dates of the file and all flags true.
C9_Witness ==
    /\ call = [fn |-> "get_report_interpreted", year |-> 2013,
               report_type |-> Str("ContributionData")]
    /\ error = "none"
    /\ Len(result) >= 1
    /\ result[1]["ContributionAmount"] = Float(1, 2)
    /\ result[1]["ContributionDate"] = DateTime(2013, 1, 1, 0, 0, 0)
    /\ result[1]["FiledDate"] = DateTime(2013, 1, 2, 0, 0, 0)
    /\ result[1]["Amended"] = Bool(TRUE)
    /\ result[1]["Amendment"] = Bool(FALSE)
    /\ AllFlagsTrue(result[1])
    /\ result[1]["RecordID"] = Str(<<"2", "0", "1", "3">>)

DigitPositions == {1, 2, 3, 4, 6, 7, 9, 10, 12, 13, 15, 16, 18, 19}
Piece(s, from, len) == SubSeq(s, from, from + len - 1)
InRange(y, mo, d, h, mi, sec) ==
    /\ y >= 1
    /\ mo \in 1..12
    /\ d >= 1
    /\ d <= (IF mo = 2 THEN (IF y % 4 = 0 /\ (y % 100 # 0 \/ y % 400 = 0) THEN 29 ELSE 28)
             ELSE IF mo \in {4, 6, 9, 11} THEN 30 ELSE 31)
    /\ h \in 0..23
    /\ mi \in 0..59
    /\ sec \in 0..59
Canonical(s) ==
    /\ Len(s) = 19
    /\ \A i \in DigitPositions : s[i] \in Digits
    /\ s[5] = "-" /\ s[8] = "-" /\ s[11] = " " /\ s[14] = ":" /\ s[17] = ":"
    /\ InRange(DigitsToInt(Piece(s, 1, 4)), DigitsToInt(Piece(s, 6, 2)),
               DigitsToInt(Piece(s, 9, 2)), DigitsToInt(Piece(s, 12, 2)),
               DigitsToInt(Piece(s, 15, 2)), DigitsToInt(Piece(s, 18, 2)))

(***************************************************************************)
(* C10: parse_iso_str accepts exactly the strings YYYY-MM-DD HH:MM:SS with *)
(* a 4-digit year and zero-padded 2-digit month, day, hour, minute and     *)
(* second separated by a single space, and fails on every other input,     *)
(* including a date without a time part, a string with non-zero-padded     *)
(* components, and a non-string value.                                     *)
(***************************************************************************)
C10_OnlyPaddedSingleSpaced ==
    parser = "parse_iso_str" =>
        (ret.exc = "none" <=> (arg.tag = "str" /\ Canonical(arg.s)))

\* How many characters the month, a space before the day, the day, the
\* hour, the minute and the second take.
Layouts == [m : 1..2, sp : 0..1, d : 1..2, H : 1..2, M : 1..2, S : 1..2]
DayAt(c) == 7 + c.m + c.sp
GapAt(c) == DayAt(c) + c.d
GapLen(s, c) == Len(s) - (GapAt(c) - 1) - (c.H + c.M + c.S + 2)
HourAt(s, c) == GapAt(c) + GapLen(s, c)
MinuteAt(s, c) == HourAt(s, c) + c.H + 1
SecondAt(s, c) == MinuteAt(s, c) + c.M + 1
Year(s) == DigitsToInt(Piece(s, 1, 4))
MonthOf(s, c) == DigitsToInt(Piece(s, 6, c.m))
DayOf(s, c) == DigitsToInt(Piece(s, DayAt(c), c.d))
HourOf(s, c) == DigitsToInt(Piece(s, HourAt(s, c), c.H))
MinuteOf(s, c) == DigitsToInt(Piece(s, MinuteAt(s, c), c.M))
SecondOf(s, c) == DigitsToInt(Piece(s, SecondAt(s, c), c.S))
DigitsAt(s, from, len) == \A i \in from..(from + len - 1) : s[i] \in Digits
Fits(s, c) ==
    /\ GapLen(s, c) >= 1
    /\ c.sp = 1 => c.d = 1
    /\ DigitsAt(s, 1, 4) /\ s[5] = "-"
    /\ DigitsAt(s, 6, c.m) /\ s[6 + c.m] = "-"
    /\ c.sp = 1 => s[7 + c.m] = " "
    /\ DigitsAt(s, DayAt(c), c.d)
    /\ \A i \in GapAt(c)..(HourAt(s, c) - 1) : s[i] \in {" ", "\t", "\n", "\r"}
    /\ DigitsAt(s, HourAt(s, c), c.H) /\ s[MinuteAt(s, c) - 1] = ":"
    /\ DigitsAt(s, MinuteAt(s, c), c.M) /\ s[SecondAt(s, c) - 1] = ":"
    /\ DigitsAt(s, SecondAt(s, c), c.S)
    /\ InRange(Year(s), MonthOf(s, c), DayOf(s, c),
               HourOf(s, c), MinuteOf(s, c), SecondOf(s, c))
Denoted(s, c) ==
    DateTime(Year(s), MonthOf(s, c), DayOf(s, c),
             HourOf(s, c), MinuteOf(s, c), SecondOf(s, c))

(***************************************************************************)
(* C10, as the code has it: parse_iso_str accepts the strings made of a    *)
(* 4-digit year, "-", a month, "-", a day, one or more whitespace          *)
(* characters, an hour, ":", a minute, ":" and a second, where month, day, *)
(* hour, minute and second are written with one or two digits (a one-digit *)
(* day may follow a space) and denote an existing date and time; it        *)
(* returns that date and time.  Every other string, a date without a time  *)
(* part included, raises ValueError and a non-string value raises          *)
(* TypeError.                                                              *)
(***************************************************************************)
C10_OneOrTwoDigitsAnyWhitespace ==
    parser = "parse_iso_str" =>
        IF arg.tag # "str" THEN ret = Raise("TypeError")
        ELSE IF \E c \in Layouts : Fits(arg.s, c)
        THEN \E c \in Layouts : Fits(arg.s, c) /\ ret = Ok(Denoted(arg.s, c))
        ELSE ret = Raise("ValueError")

\* A timestamp without leading zeros after a tab was parsed.
C10_Witness ==
    /\ parser = "parse_iso_str"
    /\ arg = Str(<<"2", "0", "1", "3", "-", "1", "-", "2", "\t", "3", ":", "4", ":", "5">>)
    /\ ret = Ok(DateTime(2013, 1, 2, 3, 4, 5))

C12_AmountFailureIsFlagFalse ==
    (passes = 1 /\ ~HasAbsent(given, category, "amounts")) =>
        IF AllParse(given, category, "amounts")
        THEN GroupConverted(entry, given, category, "amounts")
        ELSE GroupFailed(entry, given, category, "amounts")

(***************************************************************************)
(* Persistence: pycotracer/mongo_aggregator.py and mongo_aggregator.py.   *)
(* A field name is the sequence of its characters, so that renaming acts   *)
(* on the characters; an entry or a document is a function from field      *)
(* names to values.                                                        *)
(***************************************************************************)

\* The field names that occur, by their text; mongo_id is '_id' and
\* surplus is the None key csv.DictReader gives the surplus cells of a row.
Key == [
    RecordID |-> <<"R", "e", "c", "o", "r", "d", "I", "D">>,
    recordID |-> <<"r", "e", "c", "o", "r", "d", "I", "D">>,
    CO_ID |-> <<"C", "O", "_", "I", "D">>,
    commiteeID |-> <<"c", "o", "m", "m", "i", "t", "e", "e", "I", "D">>,
    MI |-> <<"M", "I">>,
    middleInitial |-> <<"m", "i", "d", "d", "l", "e", "I", "n", "i", "t", "i", "a", "l">>,
    ContributionAmount |-> <<"C", "o", "n", "t", "r", "i", "b", "u", "t", "i", "o", "n", "A", "m", "o", "u", "n", "t">>,
    ExpenditureAmount |-> <<"E", "x", "p", "e", "n", "d", "i", "t", "u", "r", "e", "A", "m", "o", "u", "n", "t">>,
    amount |-> <<"a", "m", "o", "u", "n", "t">>,
    Amount |-> <<"A", "m", "o", "u", "n", "t">>,
    LoanDate |-> <<"L", "o", "a", "n", "D", "a", "t", "e">>,
    loanStartDate |-> <<"l", "o", "a", "n", "S", "t", "a", "r", "t", "D", "a", "t", "e">>,
    PaymentDate |-> <<"P", "a", "y", "m", "e", "n", "t", "D", "a", "t", "e">>,
    date |-> <<"d", "a", "t", "e">>,
    Address1 |-> <<"A", "d", "d", "r", "e", "s", "s", "1">>,
    Address2 |-> <<"A", "d", "d", "r", "e", "s", "s", "2">>,
    address |-> <<"a", "d", "d", "r", "e", "s", "s">>,
    City |-> <<"C", "i", "t", "y">>,
    city |-> <<"c", "i", "t", "y">>,
    mongo_id |-> <<"_", "i", "d">>,
    surplus |-> <<"<None>">>]

FIELD_TRANSFORM_INDEX ==
    Key.CO_ID :> Key.commiteeID @@
    Key.MI :> Key.middleInitial @@
    Key.ContributionAmount :> Key.amount @@
    Key.ExpenditureAmount :> Key.amount @@
    Key.LoanDate :> Key.loanStartDate @@
    Key.PaymentDate :> Key.date

\* str(value) of a string or of None
PyStr(v) == IF v.tag = "str" THEN v.s ELSE <<"N", "o", "n", "e">>

\* An order over the field names; a dict lists its keys in an order of its
\* own, here this one or its reverse.
KeyOrder == <<Key.RecordID, Key.recordID, Key.CO_ID, Key.commiteeID, Key.MI,
              Key.middleInitial, Key.ContributionAmount, Key.ExpenditureAmount,
              Key.Amount, Key.amount, Key.LoanDate, Key.loanStartDate,
              Key.PaymentDate, Key.date, Key.Address1, Key.Address2,
              Key.address, Key.City, Key.city, Key.mongo_id, Key.surplus>>
\* entry.keys()
KeysOf(d, reversed) ==
    LET inOrder == SelectSeq(KeyOrder, LAMBDA k : k \in DOMAIN d)
    IN  IF reversed
        THEN [i \in 1..Len(inOrder) |-> inOrder[Len(inOrder) + 1 - i]]
        ELSE inOrder

\* The dict without some keys (del entry[key]).
Without(d, ks) == [k \in (DOMAIN d) \ ks |-> d[k]]

\* As NewKey, but without the renaming of FIELD_TRANSFORM_INDEX.
NewKeyUnmapped(key) ==
    IF Len(key) = 0 THEN key ELSE <<LowerChar(key[1])>> \o Tail(key)

\* newKey of clean_entry's loop: the mapped name, first character lowered.
NewKey(key) ==
    LET newKey == IF key \in DOMAIN FIELD_TRANSFORM_INDEX
                  THEN FIELD_TRANSFORM_INDEX[key] ELSE key
    IN  IF Len(newKey) = 0 THEN newKey
        ELSE <<LowerChar(newKey[1])>> \o Tail(newKey)

\* As CleanKeys, but a key whose new name is taken already is left out.
RECURSIVE CleanKeysFirstKept(_, _, _)
CleanKeysFirstKept(newEntry, entry_, keys) ==
    IF Len(keys) = 0 THEN newEntry
    ELSE CleanKeysFirstKept(
             IF Head(keys) = Key.surplus \/ NewKey(Head(keys)) \in DOMAIN newEntry
             THEN newEntry
             ELSE Put(newEntry, NewKey(Head(keys)), entry_[Head(keys)]),
             entry_, Tail(keys))
\* The loop of clean_entry over entry.keys(): the None key is skipped and a
\* later key overwrites an earlier one of the same new name.
RECURSIVE CleanKeys(_, _, _)
CleanKeys(newEntry, entry_, keys) ==
    IF Len(keys) = 0 THEN newEntry
    ELSE CleanKeys(IF Head(keys) = Key.surplus THEN newEntry
                   ELSE Put(newEntry, NewKey(Head(keys)), entry_[Head(keys)]),
                   entry_, Tail(keys))

\* The address clean_entry builds from Address1 and Address2.
ConsolidatedAddress(entry_) ==
    IF entry_[Key.Address2] # Str(<<>>)
    THEN Str(PyStr(entry_[Key.Address1]) \o <<" ">> \o PyStr(entry_[Key.Address2]))
    ELSE Str(PyStr(entry_[Key.Address1]))

\* clean_entry(entry): exc and val are what it raises or returns, entry is
\* the caller's dict afterwards (the address keys are deleted from it).
clean_entry(entry_, reversed) ==
    IF Key.Address1 \in DOMAIN entry_
    THEN IF Key.Address2 \notin DOMAIN entry_
         THEN [exc |-> "KeyError", val |-> None, entry |-> entry_]
         ELSE [exc |-> "none",
               val |-> CleanKeys(Put(EmptyDict, Key.address, ConsolidatedAddress(entry_)),
                                 entry_,
                                 KeysOf(Without(entry_, {Key.Address1, Key.Address2}),
                                        reversed)),
               entry |-> Without(entry_, {Key.Address1, Key.Address2})]
    ELSE [exc |-> "none",
          val |-> CleanKeys(EmptyDict, entry_, KeysOf(entry_, reversed)),
          entry |-> entry_]

\* The _id MongoDB gives a document inserted without one.
ObjectId(n) == [tag |-> "oid", n |-> n]

\* A document matches the query {'recordID': value}: its field equals the
\* value, or the value is None and the document has no such field.
Matches(doc, value) ==
    IF Key.recordID \in DOMAIN doc THEN doc[Key.recordID] = value
    ELSE value = None

\* As Upsert, but a document is inserted whether or not one matches.
InsertAlways(collection, value, fields) ==
    Append(collection,
           [k \in (DOMAIN fields) \cup {Key.recordID, Key.mongo_id} |->
               IF k \in DOMAIN fields THEN fields[k]
               ELSE IF k = Key.recordID THEN value
               ELSE ObjectId(Len(collection) + 1)])
\* collection.update({'recordID': value}, {'$set': fields}, upsert=True):
\* the fields are set in the first matching document; when none matches,
\* a document of the query's field and the fields is inserted.
Upsert(collection, value, fields) ==
    IF \E i \in 1..Len(collection) : Matches(collection[i], value)
    THEN LET first == CHOOSE i \in 1..Len(collection) :
                          /\ Matches(collection[i], value)
                          /\ \A j \in 1..(i - 1) : ~Matches(collection[j], value)
         IN  [collection EXCEPT ![first] =
                 [k \in (DOMAIN @) \cup (DOMAIN fields) |->
                     IF k \in DOMAIN fields THEN fields[k] ELSE @[k]]]
    ELSE Append(collection,
                [k \in (DOMAIN fields) \cup {Key.recordID, Key.mongo_id} |->
                    IF k \in DOMAIN fields THEN fields[k]
                    ELSE IF k = Key.recordID THEN value
                    ELSE ObjectId(Len(collection) + 1)])

\* The body the three update_*_entry functions share: clean the entry, then
\* upsert it into the collection under its recordID.
UpsertCleaned(database_, collection, cleaned) ==
    IF cleaned.exc # "none"
    THEN [exc |-> cleaned.exc, database |-> database_, entry |-> cleaned.entry,
          trail |-> <<>>]
    ELSE IF Key.recordID \notin DOMAIN cleaned.val
    THEN [exc |-> "KeyError", database |-> database_, entry |-> cleaned.entry,
          trail |-> <<>>]
    ELSE [exc |-> "none",
          database |-> [database_ EXCEPT ![collection] =
                           Upsert(@, cleaned.val[Key.recordID], cleaned.val)],
          entry |-> cleaned.entry,
          trail |-> <<<<"update", collection>>>>]

update_contribution_entry(database_, entry_, reversed) ==
    UpsertCleaned(database_, "contributions", clean_entry(entry_, reversed))

update_expenditure_entry(database_, entry_, reversed) ==
    UpsertCleaned(database_, "expenditures", clean_entry(entry_, reversed))

update_loan_entry(database_, entry_, reversed) ==
    UpsertCleaned(database_, "loans", clean_entry(entry_, reversed))

\* map(lambda x: update_*_entry(database, x), entries): the entries are
\* stored in order, and the first exception ends the map.
RECURSIVE UpsertEach(_, _, _, _, _)
UpsertEach(sofar, collection, entries_, i, reversed) ==
    IF i > Len(entries_) THEN sofar
    ELSE LET one == UpsertCleaned(sofar.database, collection,
                                  clean_entry(entries_[i], reversed))
             next == [exc |-> one.exc, database |-> one.database,
                      entry |-> [sofar.entry EXCEPT ![i] = one.entry],
                      trail |-> sofar.trail \o one.trail]
         IN  IF one.exc # "none" THEN next
             ELSE UpsertEach(next, collection, entries_, i + 1, reversed)

update_contribution_entries(database_, entries_, reversed) ==
    UpsertEach([exc |-> "none", database |-> database_, entry |-> entries_,
                trail |-> <<>>], "contributions", entries_, 1, reversed)

update_expenditure_entries(database_, entries_, reversed) ==
    UpsertEach([exc |-> "none", database |-> database_, entry |-> entries_,
                trail |-> <<>>], "expenditures", entries_, 1, reversed)

update_loan_entries(database_, entries_, reversed) ==
    UpsertEach([exc |-> "none", database |-> database_, entry |-> entries_,
                trail |-> <<>>], "loans", entries_, 1, reversed)

\* map(clean_entry, entries): the cleaned entries in val, the caller's
\* entries afterwards in entry; the first exception ends the map.
RECURSIVE CleanEach(_, _, _)
CleanEach(sofar, entries_, i) ==
    IF i > Len(entries_) THEN sofar
    ELSE LET one == clean_entry(entries_[i], FALSE)
             next == [exc |-> one.exc,
                      val |-> IF one.exc = "none" THEN Append(sofar.val, one.val)
                              ELSE sofar.val,
                      entry |-> [sofar.entry EXCEPT ![i] = one.entry]]
         IN  IF one.exc # "none" THEN next
             ELSE CleanEach(next, entries_, i + 1)

\* As InsertAll, but a document whose recordID the collection holds already
\* is merged into the document that holds it.
InsertChecked(collection, docs) ==
    LET RECURSIVE each(_, _)
        each(sofar, i) ==
            IF i > Len(docs) THEN sofar
            ELSE each(IF Key.recordID \in DOMAIN docs[i]
                      THEN Upsert(sofar, docs[i][Key.recordID], docs[i])
                      ELSE Append(sofar, Put(docs[i], Key.mongo_id,
                                             ObjectId(Len(sofar) + 1))),
                      i + 1)
    IN  each(collection, 1)
\* collection.insert(docs, continue_on_error=True): every document is
\* appended, with the _id MongoDB gives a document that has none.
InsertAll(collection, docs) ==
    collection \o
        [i \in 1..Len(docs) |->
            IF Key.mongo_id \in DOMAIN docs[i] THEN docs[i]
            ELSE Put(docs[i], Key.mongo_id, ObjectId(Len(collection) + i))]

\* The body the three insert_*_entries functions share: clean the entries,
\* then insert them all; pymongo refuses an empty list of documents.
InsertCleaned(database_, collection, cleaned) ==
    IF cleaned.exc # "none"
    THEN [exc |-> cleaned.exc, database |-> database_, entry |-> cleaned.entry,
          trail |-> <<>>]
    ELSE IF cleaned.val = <<>>
    THEN [exc |-> "InvalidOperation", database |-> database_,
          entry |-> cleaned.entry, trail |-> <<>>]
    ELSE [exc |-> "none",
          database |-> [database_ EXCEPT ![collection] = InsertAll(@, cleaned.val)],
          entry |-> cleaned.entry,
          trail |-> <<<<"insert", collection>>>>]

insert_contribution_entries(database_, entries_) ==
    InsertCleaned(database_, "contributions",
                  CleanEach([exc |-> "none", val |-> <<>>, entry |-> entries_],
                            entries_, 1))

insert_expenditure_entries(database_, entries_) ==
    InsertCleaned(database_, "expenditures",
                  CleanEach([exc |-> "none", val |-> <<>>, entry |-> entries_],
                            entries_, 1))

insert_loan_entries(database_, entries_) ==
    InsertCleaned(database_, "loans",
                  CleanEach([exc |-> "none", val |-> <<>>, entry |-> entries_],
                            entries_, 1))

\* UpdateStrategyFactory.__strategies: the strategy of each report type, by
\* the name of the function (each module binds the names to its own).
UpdateStrategies ==
    REPORT_CONTRIB_DATA :> "update_contribution_entry" @@
    REPORT_EXPEND_DATA :> "update_expenditure_entry" @@
    REPORT_LOAN_DATA :> "update_loan_entry"


\* As get_strategy, but an unknown report type gets the first strategy.
get_strategy_or_first(report_type) ==
    IF report_type.tag = "str" /\ report_type.s \in DOMAIN UpdateStrategies
    THEN UpdateStrategies[report_type.s] ELSE "update_contribution_entry"

\* self.__strategies.get(report_type, None)
get_strategy(report_type) ==
    IF report_type.tag = "str" /\ report_type.s \in DOMAIN UpdateStrategies
    THEN UpdateStrategies[report_type.s] ELSE "None"

\* update_entry of pycotracer/mongo_aggregator.py.  Its call of the strategy
\* names reassign_id and force_copy, which are neither parameters nor
\* globals of the module: evaluating the arguments raises NameError and the
\* strategy is not called.
update_entry(database_, entry_, report_type) ==
    IF get_strategy(report_type) = "None"
    THEN [exc |-> "ValueError", database |-> database_, entry |-> entry_,
          trail |-> <<>>]
    ELSE [exc |-> "NameError", database |-> database_, entry |-> entry_,
          trail |-> <<>>]

\* As manage_id_reassignment, but force_copy is ignored: the _id is always
\* set in the caller's entry.
manage_id_in_place(entry_, reassign_id, force_copy) ==
    IF ~reassign_id
    THEN [exc |-> "none", val |-> entry_, entry |-> entry_, same |-> TRUE]
    ELSE IF Key.RecordID \notin DOMAIN entry_
    THEN [exc |-> "KeyError", val |-> None, entry |-> entry_, same |-> FALSE]
    ELSE [exc |-> "none",
          val |-> Put(entry_, Key.mongo_id, entry_[Key.RecordID]),
          entry |-> Put(entry_, Key.mongo_id, entry_[Key.RecordID]),
          same |-> TRUE]

\* As manage_id_reassignment, but the copy is made whenever it is asked for,
\* and the _id is set whenever the entry has a RecordID.
manage_id_always(entry_, reassign_id, force_copy) ==
    IF Key.RecordID \notin DOMAIN entry_
    THEN [exc |-> IF reassign_id THEN "KeyError" ELSE "none",
          val |-> IF reassign_id THEN None ELSE entry_,
          entry |-> entry_, same |-> ~reassign_id]
    ELSE [exc |-> "none",
          val |-> Put(entry_, Key.mongo_id, entry_[Key.RecordID]),
          entry |-> IF force_copy THEN entry_
                    ELSE Put(entry_, Key.mongo_id, entry_[Key.RecordID]),
          same |-> ~force_copy]

\* manage_id_reassignment of mongo_aggregator.py: val is the dict returned,
\* entry the caller's dict afterwards, same whether they are one object.
manage_id_reassignment(entry_, reassign_id, force_copy) ==
    IF ~reassign_id
    THEN [exc |-> "none", val |-> entry_, entry |-> entry_, same |-> TRUE]
    ELSE IF Key.RecordID \notin DOMAIN entry_
    THEN [exc |-> "KeyError", val |-> None, entry |-> entry_, same |-> FALSE]
    ELSE [exc |-> "none",
          val |-> Put(entry_, Key.mongo_id, entry_[Key.RecordID]),
          entry |-> IF force_copy THEN entry_
                    ELSE Put(entry_, Key.mongo_id, entry_[Key.RecordID]),
          same |-> ~force_copy]

\* The body the three strategies of mongo_aggregator.py share.  After
\* manage_id_reassignment they call collection.update(entry) with the one
\* argument; pymongo's update requires the document too, so the call
\* raises TypeError before anything reaches the collection.
UpdateReassigned(database_, reassigned) ==
    [exc |-> IF reassigned.exc # "none" THEN reassigned.exc ELSE "TypeError",
     database |-> database_, entry |-> reassigned.entry, trail |-> <<>>]

root_update_contribution_entry(database_, entry_, reassign_id, force_copy) ==
    UpdateReassigned(database_,
                     manage_id_reassignment(entry_, reassign_id, force_copy))

root_update_expenditure_entry(database_, entry_, reassign_id, force_copy) ==
    UpdateReassigned(database_,
                     manage_id_reassignment(entry_, reassign_id, force_copy))

root_update_loan_entry(database_, entry_, reassign_id, force_copy) ==
    UpdateReassigned(database_,
                     manage_id_reassignment(entry_, reassign_id, force_copy))

\* strategy(database, entry, reassign_id=..., force_copy=...) for the
\* strategy of that name in mongo_aggregator.py; the trail records the call.
CallStrategy(name, database_, entry_, reassign_id, force_copy) ==
    [(IF name = "update_contribution_entry"
      THEN root_update_contribution_entry(database_, entry_, reassign_id, force_copy)
      ELSE IF name = "update_expenditure_entry"
      THEN root_update_expenditure_entry(database_, entry_, reassign_id, force_copy)
      ELSE root_update_loan_entry(database_, entry_, reassign_id, force_copy))
     EXCEPT !.trail = <<<<"strategy", name, entry_, reassign_id, force_copy>>>> \o @]

\* update_entry of mongo_aggregator.py
root_update_entry(database_, entry_, report_type, reassign_id, force_copy) ==
    IF get_strategy(report_type) = "None"
    THEN [exc |-> "ValueError", database |-> database_, entry |-> entry_,
          trail |-> <<>>]
    ELSE CallStrategy(get_strategy(report_type), database_, entry_,
                      reassign_id, force_copy)

(***************************************************************************)
(* Calls of the persistence functions, one after another on one database.  *)
(***************************************************************************)

\* at most this many calls on the database
MaxOps == 2
\* the record ids in use
RecordIds == {1, 2}

\* An entry of record id, in the version a first report gives it (1) or in
\* the version a later report gives it (2): the amount differs, the city
\* only the first version has and the middle initial only the second.
VersionOf(id, version) ==
    IF version = 1
    THEN Key.RecordID :> Str(<<DigitChar[id]>>) @@
         Key.CO_ID :> Str(<<"C", "7">>) @@
         Key.ContributionAmount :> Float(100, 0) @@
         Key.City :> Str(<<"D", "e", "n", "v", "e", "r">>)
    ELSE Key.RecordID :> Str(<<DigitChar[id]>>) @@
         Key.CO_ID :> Str(<<"C", "7">>) @@
         Key.ContributionAmount :> Float(250, 0) @@
         Key.MI :> Str(<<"Q">>)

\* Entries of other shapes: with an address of one or of two lines, with
\* Address1 alone, with an Address2 a short row left None, without
\* RecordID, with two fields of one new name, with surplus cells.
OtherEntries == {
    Key.RecordID :> Str(<<"1">>) @@ Key.Address1 :> Str(<<"1", " ", "M", "a", "i", "n", " ", "S", "t">>) @@
        Key.Address2 :> Str(<<>>),
    Key.RecordID :> Str(<<"1">>) @@ Key.Address1 :> Str(<<"1", " ", "M", "a", "i", "n", " ", "S", "t">>) @@
        Key.Address2 :> Str(<<"A", "p", "t", " ", "2">>),
    Key.RecordID :> Str(<<"1">>) @@ Key.Address1 :> Str(<<"1", " ", "M", "a", "i", "n", " ", "S", "t">>),
    Key.RecordID :> Str(<<"1">>) @@ Key.Address1 :> Str(<<"1", " ", "M", "a", "i", "n", " ", "S", "t">>) @@
        Key.Address2 :> None,
    Key.CO_ID :> Str(<<"C", "7">>) @@ Key.City :> Str(<<"D", "e", "n", "v", "e", "r">>),
    Key.RecordID :> Str(<<"1">>) @@ Key.Amount :> Float(100, 0) @@
        Key.amount :> Float(250, 0),
    Key.RecordID :> Str(<<"1">>) @@ Key.City :> Str(<<"D", "e", "n", "v", "e", "r">>) @@
        Key.surplus :> List(<<Str(<<"x">>)>>)}

StoreEntries ==
    {VersionOf(id, version) : id \in RecordIds, version \in 1..2}
        \cup OtherEntries

\* The two versions of a record and an entry with Address1 alone: the
\* entries stored into the expenditures and the loans, and the entries of
\* the lists the update_*_entries functions are called with.
FewEntries ==
    {VersionOf(1, 1), VersionOf(1, 2),
     Key.RecordID :> Str(<<"1">>) @@ Key.Address1 :> Str(<<"1", " ", "M", "a", "i", "n", " ", "S", "t">>)}
\* the lists have at most this many entries
MaxList == 2
StoreBatches == UNION {[1..n -> FewEntries] : n \in 0..MaxList}

\* The entries update_entry and manage_id_reassignment are called with.
IdEntries ==
    {VersionOf(1, 1),
     Key.CO_ID :> Str(<<"C", "7">>) @@ Key.City :> Str(<<"D", "e", "n", "v", "e", "r">>),
     Key.RecordID :> Str(<<"1">>) @@ Key.mongo_id :> Str(<<"9">>)}

InitStore ==
    /\ database = EmptyDatabase
    /\ passed = EmptyDict
    /\ op = NoOp
    /\ trail = <<>>
    /\ ops = 0
    /\ category = "none"
    /\ NoEntry
    /\ NoBatch
    /\ NoRetrieval
    /\ NoParse
    /\ NoSteps

\* A persistence function is called with these arguments and ends as res
\* says; what res does not name stays as it was.
StoreCalled(fn, module, args, res) ==
    LET all == res @@ [val |-> None, same |-> FALSE, database |-> database,
                       trail |-> <<>>]
    IN  /\ ops < MaxOps
        /\ ops' = ops + 1
        /\ database' = all.database
        /\ passed' = all.entry
        /\ trail' = all.trail
        /\ op' = [args @@ NoOp EXCEPT !.fn = fn, !.module = module,
                                      !.exc = all.exc, !.val = all.val,
                                      !.same = all.same]
        /\ UNCHANGED <<category, entryVars, batchVars, retrievalVars, parseVars,
                       stepVars>>

CleanEntry ==
    \E e \in StoreEntries, r \in BOOLEAN :
        StoreCalled("clean_entry", "pycotracer", [entry |-> e, reversed |-> r],
                    clean_entry(e, r))

UpdateContributionEntry ==
    \E e \in StoreEntries, r \in BOOLEAN :
        StoreCalled("update_contribution_entry", "pycotracer",
                    [entry |-> e, reversed |-> r],
                    update_contribution_entry(database, e, r))

UpdateExpenditureEntry ==
    \E e \in FewEntries, r \in BOOLEAN :
        StoreCalled("update_expenditure_entry", "pycotracer",
                    [entry |-> e, reversed |-> r],
                    update_expenditure_entry(database, e, r))

UpdateLoanEntry ==
    \E e \in FewEntries, r \in BOOLEAN :
        StoreCalled("update_loan_entry", "pycotracer",
                    [entry |-> e, reversed |-> r],
                    update_loan_entry(database, e, r))

UpdateContributionEntries ==
    \E es \in StoreBatches :
        StoreCalled("update_contribution_entries", "pycotracer",
                    [entry |-> es],
                    update_contribution_entries(database, es, FALSE))

UpdateExpenditureEntries ==
    \E es \in StoreBatches :
        StoreCalled("update_expenditure_entries", "pycotracer",
                    [entry |-> es],
                    update_expenditure_entries(database, es, FALSE))

UpdateLoanEntries ==
    \E es \in StoreBatches :
        StoreCalled("update_loan_entries", "pycotracer",
                    [entry |-> es],
                    update_loan_entries(database, es, FALSE))

UpdateEntry ==
    \E e \in IdEntries, rt \in ReportTypeArgs \cup {None} :
        StoreCalled("update_entry", "pycotracer",
                    [entry |-> e, report_type |-> rt],
                    update_entry(database, e, rt))

RootUpdateEntry ==
    \E e \in IdEntries, rt \in ReportTypeArgs \cup {None},
       reassign_id \in BOOLEAN, force_copy \in BOOLEAN :
        StoreCalled("update_entry", "root",
                    [entry |-> e, report_type |-> rt,
                     reassign_id |-> reassign_id, force_copy |-> force_copy],
                    root_update_entry(database, e, rt, reassign_id, force_copy))

ManageIdReassignment ==
    \E e \in IdEntries, reassign_id \in BOOLEAN, force_copy \in BOOLEAN :
        StoreCalled("manage_id_reassignment", "root",
                    [entry |-> e, reassign_id |-> reassign_id,
                     force_copy |-> force_copy],
                    manage_id_reassignment(e, reassign_id, force_copy))

\* The update functions, called one after another on a database that
\* starts empty.
NextStore ==
    \/ UpdateContributionEntry
    \/ UpdateExpenditureEntry
    \/ UpdateLoanEntry
    \/ UpdateContributionEntries
    \/ UpdateExpenditureEntries
    \/ UpdateLoanEntries

SpecStore == InitStore /\ [][NextStore]_vars

\* A database that holds a contribution already.
OneContribution ==
    [EmptyDatabase EXCEPT !.contributions =
        <<Key.recordID :> Str(<<"1">>) @@ Key.amount :> Float(100, 0) @@
          Key.mongo_id :> ObjectId(1)>>]

InitCalls ==
    /\ database \in {EmptyDatabase, OneContribution}
    /\ passed = EmptyDict
    /\ op = NoOp
    /\ trail = <<>>
    /\ ops = 0
    /\ category = "none"
    /\ NoEntry
    /\ NoBatch
    /\ NoRetrieval
    /\ NoParse
    /\ NoSteps

\* clean_entry, the update_entry of either module and
\* manage_id_reassignment, called on a database as it stands.
NextCalls ==
    \/ CleanEntry
    \/ UpdateEntry
    \/ RootUpdateEntry
    \/ ManageIdReassignment

SpecCalls == InitCalls /\ [][NextCalls]_vars

\* The entries the insert functions are called with: a record, the same
\* record with an address of two lines, and the record with Address1 alone.
InsertEntries ==
    {VersionOf(1, 1),
     Key.RecordID :> Str(<<"1">>) @@ Key.Address1 :> Str(<<"1", " ", "M", "a", "i", "n", " ", "S", "t">>) @@
         Key.Address2 :> Str(<<"A", "p", "t", " ", "2">>),
     Key.RecordID :> Str(<<"1">>) @@ Key.Address1 :> Str(<<"1", " ", "M", "a", "i", "n", " ", "S", "t">>)}
InsertBatches == UNION {[1..n -> InsertEntries] : n \in 0..MaxList}
\* The lists inserted into the expenditures and the loans.
FewBatches ==
    {<<>>, <<VersionOf(1, 1)>>, <<VersionOf(1, 2), VersionOf(1, 1)>>}

InsertContributionEntries ==
    \E es \in InsertBatches :
        StoreCalled("insert_contribution_entries", "pycotracer",
                    [entry |-> es], insert_contribution_entries(database, es))

InsertExpenditureEntries ==
    \E es \in FewBatches :
        StoreCalled("insert_expenditure_entries", "pycotracer",
                    [entry |-> es], insert_expenditure_entries(database, es))

InsertLoanEntries ==
    \E es \in FewBatches :
        StoreCalled("insert_loan_entries", "pycotracer",
                    [entry |-> es], insert_loan_entries(database, es))

\* The insert functions, called one after another on a database that
\* starts empty.
NextInsert ==
    \/ InsertContributionEntries
    \/ InsertExpenditureEntries
    \/ InsertLoanEntries

SpecInsert == InitStore /\ [][NextInsert]_vars

(***************************************************************************)
(* Vocabulary of the persistence properties                                *)
(***************************************************************************)
Collections == {"contributions", "expenditures", "loans"}
CollectionOf(fn) ==
    IF fn \in {"update_contribution_entry", "update_contribution_entries"}
    THEN "contributions"
    ELSE IF fn \in {"update_expenditure_entry", "update_expenditure_entries"}
    THEN "expenditures" ELSE "loans"
SingleUpdates ==
    {"update_contribution_entry", "update_expenditure_entry", "update_loan_entry"}
BatchUpdates ==
    {"update_contribution_entries", "update_expenditure_entries",
     "update_loan_entries"}
\* The positions of the documents of a collection with this recordID.
WithRecordID(collection, value) ==
    {i \in 1..Len(collection) :
        Key.recordID \in DOMAIN collection[i] /\ collection[i][Key.recordID] = value}
OnePerRecordID(db) ==
    \A c \in Collections : \A i, j \in 1..Len(db[c]) :
        /\ Key.recordID \in DOMAIN db[c][i]
        /\ (i # j => db[c][i][Key.recordID] # db[c][j][Key.recordID])
\* clean_entry accepts the entry and the result carries a recordID.
Storable(e, reversed) ==
    /\ clean_entry(e, reversed).exc = "none"
    /\ Key.recordID \in DOMAIN clean_entry(e, reversed).val
\* The document carries every field of the cleaned entry with its value.
Carries(doc, fields) ==
    \A k \in DOMAIN fields : k \in DOMAIN doc /\ doc[k] = fields[k]
\* From collection before to collection after, the fields were upserted:
\* inserted as a new last document when no document had their recordID,
\* merged into the one that had it otherwise; the other documents stay.
Upserted(before, after, fields) ==
    LET had == WithRecordID(before, fields[Key.recordID])
        has == WithRecordID(after, fields[Key.recordID])
    IN  /\ Cardinality(has) = 1
        /\ \A i \in has : Carries(after[i], fields)
        /\ \A i \in (1..Len(before)) \ had : after[i] = before[i]
        /\ IF had = {}
           THEN /\ Len(after) = Len(before) + 1
                /\ has = {Len(after)}
                /\ DOMAIN after[Len(after)] = (DOMAIN fields) \cup {Key.mongo_id}
           ELSE /\ Len(after) = Len(before)
                /\ has = had
                /\ \A i \in had :
                    /\ DOMAIN after[i] = (DOMAIN before[i]) \cup (DOMAIN fields)
                    /\ \A k \in (DOMAIN before[i]) \ (DOMAIN fields) :
                        after[i][k] = before[i][k]
\* The entries of a list that a batch update stores: all of them, or those
\* before the first one that cannot be stored.
StoredPrefix(es) ==
    CHOOSE n \in 0..Len(es) :
        /\ \A i \in 1..n : Storable(es[i], FALSE)
        /\ (n < Len(es) => ~Storable(es[n + 1], FALSE))
\* After a batch update every record of the stored prefix has its one
\* document, which carries the fields of the last entry stored for it.
BatchUpserted(before, after, es) ==
    LET n == StoredPrefix(es)
        fieldsOf(i) == clean_entry(es[i], FALSE).val
        ids == {fieldsOf(i)[Key.recordID] : i \in 1..n}
        latest(v) == CHOOSE i \in 1..n :
                         /\ fieldsOf(i)[Key.recordID] = v
                         /\ \A j \in (i + 1)..n : fieldsOf(j)[Key.recordID] # v
    IN  /\ \A v \in ids :
            /\ Cardinality(WithRecordID(after, v)) = 1
            /\ \A d \in WithRecordID(after, v) : Carries(after[d], fieldsOf(latest(v)))
        /\ Len(after) = Len(before)
                + Cardinality({v \in ids : WithRecordID(before, v) = {}})
        /\ \A d \in 1..Len(before) :
            before[d][Key.recordID] \notin ids => after[d] = before[d]
UpsertStep ==
    /\ OnePerRecordID(database')
    /\ op'.fn \in SingleUpdates =>
        /\ \A c \in Collections \ {CollectionOf(op'.fn)} : database'[c] = database[c]
        /\ IF Storable(op'.entry, op'.reversed)
           THEN /\ op'.exc = "none"
                /\ Upserted(database[CollectionOf(op'.fn)],
                            database'[CollectionOf(op'.fn)],
                            clean_entry(op'.entry, op'.reversed).val)
           ELSE /\ op'.exc = "KeyError"
                /\ database' = database
    /\ op'.fn \in BatchUpdates =>
        /\ \A c \in Collections \ {CollectionOf(op'.fn)} : database'[c] = database[c]
        /\ op'.exc = (IF StoredPrefix(op'.entry) = Len(op'.entry)
                      THEN "none" ELSE "KeyError")
        /\ BatchUpserted(database[CollectionOf(op'.fn)],
                         database'[CollectionOf(op'.fn)], op'.entry)

(***************************************************************************)
(* C13: the update functions upsert by record identifier.  From an empty   *)
(* collection on, after every call a collection holds at most one document *)
(* per recordID.  A call whose entry cleans to fields with a recordID      *)
(* inserts a document of these fields when no document has that recordID   *)
(* and otherwise sets the fields in the document that has it, keeping the  *)
(* document's other fields; afterwards that document carries every field   *)
(* of the cleaned entry with its value, and every other document is as it  *)
(* was.  A call whose entry cannot be cleaned or has no record identifier  *)
(* raises KeyError and stores nothing.  The *_entries functions do this    *)
(* for the entries of the list in order, up to the first that raises.      *)
(***************************************************************************)
C13_UpsertByRecordID == [][UpsertStep]_vars

\* A second report of record 1 was merged into the document the first
\* report inserted: one document, with the city of the first version and
\* the amount and the middle initial of the second.
C13_Witness ==
    /\ ops = 2
    /\ op.fn = "update_contribution_entry"
    /\ op.entry = VersionOf(1, 2)
    /\ op.exc = "none"
    /\ Len(database.contributions) = 1
    /\ Key.city \in DOMAIN database.contributions[1]
    /\ database.contributions[1][Key.middleInitial] = Str(<<"Q">>)
    /\ database.contributions[1][Key.amount] = Float(250, 0)

\* The renaming as prescribed: the six field names that get a new name.
Prescribed(k) ==
    IF k = Key.CO_ID THEN Key.commiteeID
    ELSE IF k = Key.MI THEN Key.middleInitial
    ELSE IF k \in {Key.ContributionAmount, Key.ExpenditureAmount} THEN Key.amount
    ELSE IF k = Key.LoanDate THEN Key.loanStartDate
    ELSE IF k = Key.PaymentDate THEN Key.date
    ELSE k
UpperCase == {"A", "B", "C", "D", "E", "F", "G", "H", "I", "J", "K", "L", "M",
              "N", "O", "P", "Q", "R", "S", "T", "U", "V", "W", "X", "Y", "Z"}
\* The prescribed name with its first character lower-cased.
Renamed(k) ==
    IF Len(Prescribed(k)) = 0 THEN Prescribed(k)
    ELSE <<LowerChar(Prescribed(k)[1])>> \o Tail(Prescribed(k))
\* The keys of an entry that clean_entry retains: not the None key, and not
\* the two address lines it consolidates.
Retained(e) ==
    (DOMAIN e) \ ({Key.surplus} \cup
                  (IF Key.Address1 \in DOMAIN e
                   THEN {Key.Address1, Key.Address2} ELSE {}))
\* The keys of a result of clean_entry that come from retained keys.
RenamedKeys(e, res) ==
    (DOMAIN res) \ (IF Key.Address1 \in DOMAIN e THEN {Key.address} ELSE {})
CleanReturned == op.fn = "clean_entry" /\ op.exc = "none"

(***************************************************************************)
(* C14: clean_entry renames keys as FIELD_TRANSFORM_INDEX prescribes and   *)
(* lower-cases the first character of every retained key.  Whenever        *)
(* clean_entry returns, every key of the result (the consolidated address  *)
(* aside) is the prescribed new name, first character lower-cased, of a    *)
(* retained key of the entry and maps to that key's value; every retained  *)
(* key has its new name in the result; and no key of the result begins     *)
(* with an upper-case letter.                                              *)
(***************************************************************************)
C14_KeysRenamed ==
    CleanReturned =>
        /\ \A new \in RenamedKeys(op.entry, op.val) :
            \E k \in Retained(op.entry) :
                new = Renamed(k) /\ op.val[new] = op.entry[k]
        /\ \A k \in Retained(op.entry) : Renamed(k) \in DOMAIN op.val
        /\ \A new \in DOMAIN op.val : Len(new) > 0 => new[1] \notin UpperCase

\* The first version of record 1 was cleaned: its four keys have their new
\* names and their values.
C14_Witness ==
    /\ CleanReturned
    /\ op.entry = VersionOf(1, 1)
    /\ DOMAIN op.val = {Key.recordID, Key.commiteeID, Key.amount, Key.city}
    /\ op.val[Key.commiteeID] = Str(<<"C", "7">>)
    /\ op.val[Key.amount] = Float(100, 0)

\* The one-field address as prescribed: Address1 alone when Address2 is the
\* empty string, else Address1, one space, Address2.
OneFieldAddress(e) ==
    IF e[Key.Address2] = Str(<<>>) THEN e[Key.Address1]
    ELSE Str(e[Key.Address1].s \o <<" ">> \o e[Key.Address2].s)
AddressLines == {<<"a", "d", "d", "r", "e", "s", "s", "1">>,
                 <<"a", "d", "d", "r", "e", "s", "s", "2">>}

(***************************************************************************)
(* C15 as specified: for every entry that has an Address1 field,           *)
(* clean_entry returns a mapping whose field address equals Address1 when  *)
(* Address2 is the empty string and Address1, one space, Address2          *)
(* otherwise, and the result has neither an address1 nor an address2 key;  *)
(* for an entry without Address1 the result has no address field added.    *)
(***************************************************************************)
C15_AddressConsolidated ==
    op.fn = "clean_entry" =>
        /\ op.exc = "none"
        /\ IF Key.Address1 \in DOMAIN op.entry
           THEN /\ Key.address \in DOMAIN op.val
                /\ Key.Address2 \in DOMAIN op.entry
                /\ op.entry[Key.Address2].tag = "str"
                /\ op.val[Key.address] = OneFieldAddress(op.entry)
                /\ AddressLines \cap DOMAIN op.val = {}
           ELSE Key.address \in DOMAIN op.val =>
                    \E k \in DOMAIN op.entry : Renamed(k) = Key.address

RecognizedType(report_type) ==
    report_type.tag = "str" /\ report_type.s \in RecognizedTypes
\* The step is a call of update_entry, of either module.
UpdateEntryStep == op' # op /\ op'.fn = "update_entry"

(***************************************************************************)
(* C16: update_entry called with a report type that is not one of the      *)
(* three recognized ones raises ValueError, calls no strategy, performs no *)
(* operation on the database and leaves the entry as it was.  This holds   *)
(* for the update_entry of pycotracer/mongo_aggregator.py and for the one  *)
(* of mongo_aggregator.py.                                                 *)
(***************************************************************************)
C16_UnknownTypeChangesNothing ==
    [][(UpdateEntryStep /\ ~RecognizedType(op'.report_type)) =>
        /\ op'.exc = "ValueError"
        /\ trail' = <<>>
        /\ database' = database
        /\ passed' = op'.entry]_vars

\* update_entry of mongo_aggregator.py was called with '_invalid_type' on
\* a database that holds a document, and raised ValueError.
C16_Witness ==
    /\ op.fn = "update_entry"
    /\ op.module = "root"
    /\ op.report_type = Str("_invalid_type")
    /\ op.reassign_id
    /\ op.exc = "ValueError"
    /\ database = OneContribution

\* The strategy registered for each report type, as prescribed.
Registered(report_type) ==
    IF report_type.s = "ContributionData" THEN "update_contribution_entry"
    ELSE IF report_type.s = "ExpenditureData" THEN "update_expenditure_entry"
    ELSE "update_loan_entry"
\* The strategy invocations on the trail.
Invocations == SelectSeq(trail, LAMBDA e : e[1] = "strategy")

(***************************************************************************)
(* C17 as specified: update_entry called with a recognized report type     *)
(* invokes exactly once the strategy registered for that type              *)
(* (ContributionData -> update_contribution_entry, ExpenditureData ->      *)
(* update_expenditure_entry, LoanData -> update_loan_entry) with the       *)
(* caller's entry, reassign_id and force_copy, and invokes no other        *)
(* strategy.  Stated for the update_entry of either module.                *)
(***************************************************************************)
C17_RegisteredStrategyOnce ==
    (op.fn = "update_entry" /\ RecognizedType(op.report_type)) =>
        Invocations = <<<<"strategy", Registered(op.report_type), op.entry,
                          op.reassign_id, op.force_copy>>>>

ReassignmentReturned == op.fn = "manage_id_reassignment" /\ op.exc = "none"

(***************************************************************************)
(* C18: manage_id_reassignment(entry, reassign_id, force_copy) returns,    *)
(* when reassign_id is true, a mapping equal to the entry with _id set to  *)
(* the entry's RecordID value, and when reassign_id is false a mapping     *)
(* equal to the entry, with no _id added, whatever force_copy is.  An      *)
(* entry without RecordID has no such value: with reassign_id true the     *)
(* call raises KeyError, with reassign_id false it returns the entry.      *)
(***************************************************************************)
C18_IdIsRecordID ==
    op.fn = "manage_id_reassignment" =>
        IF op.reassign_id
        THEN IF Key.RecordID \in DOMAIN op.entry
             THEN /\ op.exc = "none"
                  /\ DOMAIN op.val = (DOMAIN op.entry) \cup {Key.mongo_id}
                  /\ op.val[Key.mongo_id] = op.entry[Key.RecordID]
                  /\ \A k \in (DOMAIN op.entry) \ {Key.mongo_id} :
                        op.val[k] = op.entry[k]
             ELSE op.exc = "KeyError"
        ELSE op.exc = "none" /\ op.val = op.entry

\* The _id of an entry was replaced by its RecordID.
C18_Witness ==
    /\ ReassignmentReturned
    /\ op.reassign_id
    /\ Key.mongo_id \in DOMAIN op.entry
    /\ op.entry[Key.mongo_id] = Str(<<"9">>)
    /\ op.val[Key.mongo_id] = Str(<<"1">>)

(***************************************************************************)
(* C19: manage_id_reassignment leaves the entry passed by the caller       *)
(* unmodified whenever force_copy is true or reassign_id is false; only    *)
(* with reassign_id true and force_copy false is the caller's entry itself *)
(* modified (it gains _id, the RecordID value) and returned as the result. *)
(* With reassign_id true and force_copy true the result is another object  *)
(* than the caller's entry.                                                *)
(***************************************************************************)
C19_OnlyInPlaceWithoutCopy ==
    op.fn = "manage_id_reassignment" =>
        IF op.exc = "none" /\ op.reassign_id /\ ~op.force_copy
        THEN /\ passed = Put(op.entry, Key.mongo_id, op.entry[Key.RecordID])
             /\ op.same
             /\ op.val = passed
        ELSE /\ passed = op.entry
             /\ (op.exc = "none" /\ op.reassign_id) => ~op.same

\* With reassign_id true and force_copy false the caller's entry gained the
\* _id and is the object returned.
C19_Witness ==
    /\ ReassignmentReturned
    /\ op.reassign_id
    /\ ~op.force_copy
    /\ op.entry = VersionOf(1, 1)
    /\ passed # op.entry
    /\ passed[Key.mongo_id] = Str(<<"1">>)
    /\ op.same

\* What get_report_interpreted gives for the year of the call and a type.
SectionOf(t) == get_report_interpreted(site, call.year, Str(t))
TypesInOrder == <<"ContributionData", "ExpenditureData", "LoanData">>
\* The types whose section raises, by their position in the order.
RaisingSections ==
    {i \in 1..Len(TypesInOrder) : SectionOf(TypesInOrder[i]).exc # "none"}
FirstRaising == CHOOSE i \in RaisingSections : \A j \in RaisingSections : i <= j

(***************************************************************************)
(* C20: get_report(year) called without a report type returns a mapping    *)
(* whose key set is exactly the three report types, each mapped to what    *)
(* get_report_interpreted gives for that type and the same year; if the    *)
(* interpreted report of some type cannot be had, the call raises what     *)
(* the first such type raises.  Called with a report type, get_report      *)
(* returns or raises just what get_report_interpreted does for that type.  *)
(***************************************************************************)
C20_AllSectionsOrTheOne ==
    call.fn = "get_report" =>
        IF call.report_type = None
        THEN IF RaisingSections = {}
             THEN /\ error = "none"
                  /\ DOMAIN result = RecognizedTypes
                  /\ \A t \in RecognizedTypes : result[t] = SectionOf(t).val
             ELSE error = SectionOf(TypesInOrder[FirstRaising]).exc
        ELSE /\ error = get_report_interpreted(site, call.year, call.report_type).exc
             /\ result = get_report_interpreted(site, call.year, call.report_type).val

\* get_report(2013) returned the three reports of 2013, each with a record,
\* the contributions other than the loans.
C20_Witness ==
    /\ call = [fn |-> "get_report", year |-> 2013, report_type |-> None]
    /\ error = "none"
    /\ DOMAIN result = RecognizedTypes
    /\ \A t \in RecognizedTypes : Len(result[t]) > 0
    /\ result["ContributionData"] # result["LoanData"]
    /\ result["ContributionData"][1]["RecordID"] = Str(FormatD(2013))

(***************************************************************************)
(* C21 as specified: an entry interpreter called on an entry that lacks a  *)
(* field it expects raises ValueError, as the docstrings say (@raise       *)
(* ValueError: Raised if an expected field could not be found in entry).   *)
(***************************************************************************)
C21_AbsentFieldRaisesValueError ==
    (passes = 1 /\ \E g \in GroupSet : HasAbsent(given, category, g)) =>
        outcome = "ValueError"

(***************************************************************************)
(* A pass over a batch, one try block at a time.  An entry interpreter is  *)
(* its three try blocks; a pass runs the blocks of the records either as   *)
(* map() does (record after record, ending at the first exception) or      *)
(* with the blocks of different records interleaved, as a per-record       *)
(* parallel pass would.                                                    *)
(***************************************************************************)

\* The except clauses of the interpreter of a report type.
CaughtOf(rt) ==
    IF rt = REPORT_CONTRIB_DATA THEN ContributionCaught
    ELSE IF rt = REPORT_EXPEND_DATA THEN ExpenditureCaught
    ELSE LoanCaught

\* The i-th try block of the interpreter of a report type: 1 the amounts,
\* 2 the dates, 3 the booleans.
TryBlock(entry_, rt, i) ==
    TryGroup(entry_, GroupFieldsOf(rt, i),
             IF i = 1 THEN "float"
             ELSE IF i = 2 THEN "parse_iso_str" ELSE "parse_yes_no_str",
             IF i = 1 THEN "AmountsInterpreted"
             ELSE IF i = 2 THEN "DatesInterpreted" ELSE "BooleanFieldsInterpreted",
             CaughtOf(rt))

\* The order of the try blocks in the source, and the six orders there are.
SourceOrder == <<1, 2, 3>>
BlockOrders == {<<1, 2, 3>>, <<1, 3, 2>>, <<2, 1, 3>>, <<2, 3, 1>>,
                <<3, 1, 2>>, <<3, 2, 1>>}

\* A sequential pass runs the blocks of every record in one order, the
\* source's or another; an interleaved pass runs them in the source's.
InitSteps ==
    /\ category \in ReportTypeSet
    /\ batch \in Batches(category)
    /\ entries = batch
    /\ output = <<>>
    /\ batchOutcome = "idle"
    /\ mode \in {"sequential", "interleaved"}
    /\ progress \in {[i \in 1..Len(batch) |->
                         [done |-> 0, exc |-> "none", order |-> o]] :
                     o \in IF mode = "sequential" THEN BlockOrders
                           ELSE {SourceOrder}}
    /\ NoEntry
    /\ NoRetrieval
    /\ NoParse
    /\ NoStore

\* Record i has a block left to run.
Runnable(i) == progress[i].done < 3 /\ progress[i].exc = "none"

\* The next try block of record i runs on it.
BlockRan(i, res) ==
    /\ entries' = [entries EXCEPT ![i] = res.entry]
    /\ progress' = [progress EXCEPT
                       ![i].done = IF res.exc = "none" THEN @ + 1 ELSE @,
                       ![i].exc = res.exc]
    /\ UNCHANGED <<category, batch, output, batchOutcome, mode, entryVars,
                   retrievalVars, parseVars, storeVars>>

\* map(interpret_*_entry, entries): the next block of the first record
\* that is not finished, as long as no record has raised.
StepInOrder ==
    /\ mode = "sequential"
    /\ \A j \in 1..Len(entries) : progress[j].exc = "none"
    /\ \E i \in 1..Len(entries) :
        /\ Runnable(i)
        /\ \A j \in 1..(i - 1) : ~Runnable(j)
        /\ BlockRan(i, TryBlock(entries[i], category,
                                progress[i].order[progress[i].done + 1]))

\* A per-record parallel pass: the next block of any record that is not
\* finished; a record that raises does not stop the others.
StepAnyRecord ==
    /\ mode = "interleaved"
    /\ \E i \in 1..Len(entries) :
        /\ Runnable(i)
        /\ BlockRan(i, TryBlock(entries[i], category,
                                progress[i].order[progress[i].done + 1]))

NextSteps ==
    \/ StepInOrder
    \/ StepAnyRecord

SpecSteps == InitSteps /\ [][NextSteps]_vars

(***************************************************************************)
(* Vocabulary of the pass properties                                       *)
(***************************************************************************)
BatchInterpreterOf(rt, es) ==
    IF rt = REPORT_CONTRIB_DATA THEN interpret_contributions_data(es)
    ELSE IF rt = REPORT_EXPEND_DATA THEN interpret_expenditure_data(es)
    ELSE interpret_loan_data(es)
\* No record of the pass has a block left to run.
PassEnded == \A i \in 1..Len(entries) : ~Runnable(i)
\* The pass runs the blocks in the order of the source.
InSourceOrder == \A i \in 1..Len(entries) : progress[i].order = SourceOrder
\* The three blocks run in the order of the source are the interpreter.
BlocksAreInterpreter ==
    (mode = "sequential" /\ InSourceOrder
        /\ (PassEnded \/ \E i \in 1..Len(entries) : progress[i].exc # "none")) =>
        entries = BatchInterpreterOf(category, batch).entries

(***************************************************************************)
(* C22 as specified: the records of a batch are independent, so a pass     *)
(* that interprets them with their try blocks interleaved across records   *)
(* (per-record parallelization, any order of the records included) ends    *)
(* with the same records as the sequential pass of the batch interpreter.  *)
(***************************************************************************)
C22_InterleavedAsSequential ==
    (mode = "interleaved" /\ PassEnded) =>
        entries = BatchInterpreterOf(category, batch).entries

\* The sequential pass is at a point where it can stop: between two
\* records (run to completion included) or at an exception.
PassStopped ==
    \/ \A i \in 1..Len(entries) : progress[i].done \in {0, 3}
    \/ \E i \in 1..Len(entries) : progress[i].exc # "none"
\* Record i is as it was given: no field changed, no status flag added.
RecordUntouched(i) == entries[i] = batch[i]
\* Record i carries the three status flags, each group wholly converted or
\* wholly original.
RecordWhole(i) ==
    \A g \in GroupSet :
        \/ AllParse(batch[i], category, g)
            /\ GroupConverted(entries[i], batch[i], category, g)
        \/ GroupFailed(entries[i], batch[i], category, g)

(***************************************************************************)
(* C23 as specified: whenever the sequential pass of a batch interpreter   *)
(* stops (run to completion, abandoned between two records, or ended by    *)
(* an exception) the records processed so far are a prefix of the input    *)
(* and no record is partially corrupted: every record either is untouched  *)
(* or carries all three status flags with each group wholly converted or   *)
(* wholly original.                                                        *)
(***************************************************************************)
C23_StopLeavesWholeRecords ==
    (mode = "sequential" /\ InSourceOrder /\ PassStopped) =>
        /\ \E n \in 0..Len(entries) :
            /\ \A i \in 1..n : ~RecordUntouched(i)
            /\ \A i \in (n + 1)..Len(entries) : RecordUntouched(i)
        /\ \A i \in 1..Len(entries) : RecordUntouched(i) \/ RecordWhole(i)

\* Record i of the pass has been through its blocks: all three, or up to
\* the one that raised.
RecordEnded(i) == progress[i].done = 3 \/ progress[i].exc # "none"

(***************************************************************************)
(* C24 as specified: for every category and every record, evaluating the   *)
(* three groups (amounts, dates, booleans) in any of the six possible      *)
(* orders gives the same interpreted record as the interpreter, which      *)
(* evaluates them in the order amounts, dates, booleans.                   *)
(***************************************************************************)
C24_AnyGroupOrder ==
    mode = "sequential" =>
        \A i \in 1..Len(entries) :
            RecordEnded(i) => entries[i] = InterpreterOf(category, batch[i]).entry

\* The records hold only what csv.DictReader gives: strings, None for the
\* cells a short row lacks, a list for its surplus cells.
Untyped(rows) ==
    \A i \in 1..Len(rows) : \A k \in DOMAIN rows[i] :
        rows[i][k].tag \in {"str", "none", "list"}
\* The records that raise when their entry interpreter is applied to them.
RaisingRecords(rt, rows) ==
    {i \in 1..Len(rows) : InterpreterOf(rt, rows[i]).exc # "none"}
\* res and err are what comes of applying the entry interpreter of rt once
\* to each of the rows: the interpreted records, or the exception of the
\* first row that raises.
OncePerRecord(rt, rows, res, err) ==
    IF RaisingRecords(rt, rows) = {}
    THEN /\ err = "none"
         /\ Len(res) = Len(rows)
         /\ \A i \in 1..Len(rows) : res[i] = InterpreterOf(rt, rows[i]).entry
    ELSE err = InterpreterOf(rt, rows[CHOOSE i \in RaisingRecords(rt, rows) :
                                 \A j \in RaisingRecords(rt, rows) : i <= j]).exc
\* The batch interpreters the call reached, in order.
InterpreterCalls == SelectSeq(log, LAMBDA e : e[1] = "interpreter")
OwnBatchInterpreter(t) ==
    IF t = "ContributionData" THEN "interpret_contributions_data"
    ELSE IF t = "ExpenditureData" THEN "interpret_expenditure_data"
    ELSE "interpret_loan_data"
RawOf(t) == get_report_raw(site, call.year, Str(t))
\* get_report_interpreted, or get_report with a report type, of a
\* recognized type.
OneSectionCall ==
    /\ call.fn \in {"get_report_interpreted", "get_report"}
    /\ call.report_type.tag = "str"
    /\ call.report_type.s \in RecognizedTypes
AllSectionsCall == call.fn = "get_report" /\ call.report_type = None

(***************************************************************************)
(* C25: on every retrieval path (get_report with or without a report type, *)
(* get_report_interpreted) the records read from a report hold only what   *)
(* the CSV reader gives, never an already typed value, and go through the  *)
(* interpreter of their category once: the batch interpreter of the        *)
(* category is called once on them, and what the path returns is each      *)
(* record with its entry interpreter applied exactly once.  A path on      *)
(* which a record raises ends with that exception and returns no record;   *)
(* there, too, no batch interpreter is called a second time.               *)
(***************************************************************************)
C25_InterpretedExactlyOnce ==
    /\ (OneSectionCall /\ RawOf(call.report_type.s).exc = "none") =>
        /\ Untyped(RawOf(call.report_type.s).val)
        /\ InterpreterCalls =
               <<<<"interpreter", OwnBatchInterpreter(call.report_type.s)>>>>
        /\ OncePerRecord(call.report_type.s, RawOf(call.report_type.s).val,
                         result, error)
    /\ (OneSectionCall /\ RawOf(call.report_type.s).exc # "none") =>
        InterpreterCalls = <<>>
    /\ AllSectionsCall =>
        /\ \E n \in 0..Len(TypesInOrder) :
            InterpreterCalls =
                [j \in 1..n |-> <<"interpreter", OwnBatchInterpreter(TypesInOrder[j])>>]
        /\ error = "none" =>
            /\ Len(InterpreterCalls) = Len(TypesInOrder)
            /\ \A t \in RecognizedTypes :
                /\ Untyped(RawOf(t).val)
                /\ OncePerRecord(t, RawOf(t).val, result[t], "none")

\* get_report(2013) returned; the one record of the contributions report
\* has been through interpret_contribution_entry once: all flags true.
C25_Witness ==
    /\ AllSectionsCall
    /\ call.year = 2013
    /\ error = "none"
    /\ Len(InterpreterCalls) = 3
    /\ Len(result["ContributionData"]) = 1
    /\ AllFlagsTrue(result["ContributionData"][1])
    /\ result["ContributionData"][1]["ContributionAmount"] = Float(1, 2)

(***************************************************************************)
(* C26 as specified: clean_entry returns a copy and does not modify the    *)
(* entry passed to it: when it has returned, the caller's entry has the    *)
(* keys and values it had before, and cleaning it once more gives the      *)
(* result the first cleaning gave.                                         *)
(***************************************************************************)
C26_CallerEntryKept ==
    CleanReturned =>
        /\ passed = op.entry
        /\ clean_entry(passed, op.reversed).exc = "none"
        /\ clean_entry(passed, op.reversed).val = op.val

BatchInserts ==
    {"insert_contribution_entries", "insert_expenditure_entries",
     "insert_loan_entries"}
InsertCollectionOf(fn) ==
    IF fn = "insert_contribution_entries" THEN "contributions"
    ELSE IF fn = "insert_expenditure_entries" THEN "expenditures" ELSE "loans"
\* clean_entry accepts every entry of the list.
AllCleanable(es) ==
    \A i \in 1..Len(es) : clean_entry(es[i], FALSE).exc = "none"
\* From collection before to collection after, one document per entry was
\* added after the documents there were: the cleaned entry and an _id.
Inserted(before, after, es) ==
    /\ Len(after) = Len(before) + Len(es)
    /\ \A d \in 1..Len(before) : after[d] = before[d]
    /\ \A i \in 1..Len(es) :
        /\ Carries(after[Len(before) + i], clean_entry(es[i], FALSE).val)
        /\ DOMAIN after[Len(before) + i] =
               (DOMAIN clean_entry(es[i], FALSE).val) \cup {Key.mongo_id}
InsertStep ==
    op'.fn \in BatchInserts =>
        /\ \A c \in Collections \ {InsertCollectionOf(op'.fn)} :
            database'[c] = database[c]
        /\ IF AllCleanable(op'.entry) /\ op'.entry # <<>>
           THEN /\ op'.exc = "none"
                /\ Inserted(database[InsertCollectionOf(op'.fn)],
                            database'[InsertCollectionOf(op'.fn)], op'.entry)
           ELSE /\ op'.exc # "none"
                /\ database' = database

(***************************************************************************)
(* C27: insert_contribution_entries, insert_expenditure_entries and        *)
(* insert_loan_entries add one cleaned document per given entry to their   *)
(* collection, after the documents it holds and whatever their recordID:   *)
(* no document there is changed and none of the entries is merged into     *)
(* one.  The other collections stay as they were.  A list with an entry    *)
(* that cannot be cleaned, or an empty list, raises and adds nothing.      *)
(***************************************************************************)
C27_InsertAddsOnePerEntry == [][InsertStep]_vars

\* Record 1 was inserted twice: the contributions hold two documents of
\* recordID '1', which the update functions never leave behind.
C27_Witness ==
    /\ ops = 2
    /\ op.fn = "insert_contribution_entries"
    /\ op.exc = "none"
    /\ Len(op.entry) = 1
    /\ Len(database.contributions) = 2
    /\ Cardinality(WithRecordID(database.contributions, Str(<<"1">>))) = 2
    /\ ~OnePerRecordID(database)

\* The keys of the entry other than the two address lines.
OtherKeys(e) == (DOMAIN e) \ {Key.Address1, Key.Address2}
\* The keys the loop of clean_entry copies: the None key is not one.
CopiedKeys(e) == OtherKeys(e) \ {Key.surplus}
\* The fields of the result other than the address.
OtherFields(names) == names \ {Key.address}
\* The key of this new name that entry.keys() lists last.
LastNamed(e, reversed, name) ==
    LET keys == KeysOf(e, reversed)
        last == CHOOSE i \in 1..Len(keys) :
                    /\ NewKey(keys[i]) = name
                    /\ keys[i] # Key.surplus
                    /\ \A j \in (i + 1)..Len(keys) :
                        NewKey(keys[j]) # name \/ keys[j] = Key.surplus
    IN  keys[last]

(***************************************************************************)
(* C28 as specified: clean_entry loses no field.  Each key of the entry    *)
(* other than Address1 and Address2 has a new name of its own, the result  *)
(* has as many fields besides the address as the entry has such keys, and  *)
(* the value of each is found in the result under the new name.            *)
(***************************************************************************)
C28_NoFieldLost ==
    CleanReturned =>
        /\ \A k1, k2 \in OtherKeys(op.entry) : k1 # k2 => NewKey(k1) # NewKey(k2)
        /\ Cardinality(OtherFields(DOMAIN op.val)) = Cardinality(OtherKeys(op.entry))
        /\ \A k \in OtherKeys(op.entry) :
            /\ NewKey(k) \in DOMAIN op.val
            /\ op.val[NewKey(k)] = op.entry[k]

(***************************************************************************)
(* C28 as coded: clean_entry copies every key of the entry other than      *)
(* Address1, Address2 and the None key under its new name; the None key,   *)
(* which holds the surplus cells of a long row, is dropped.  Keys of one   *)
(* new name share one field of the result, which holds the value of the    *)
(* one entry.keys() lists last, so the result has as many fields besides   *)
(* the address as the copied keys have distinct new names.                 *)
(***************************************************************************)
C28_LastOfEachNameKept ==
    CleanReturned =>
        /\ OtherFields(DOMAIN op.val) =
               OtherFields({NewKey(k) : k \in CopiedKeys(op.entry)})
        /\ Key.surplus \notin DOMAIN op.val
        /\ \A k \in CopiedKeys(op.entry) :
            op.val[NewKey(k)] =
                op.entry[LastNamed(Without(op.entry, {Key.Address1, Key.Address2}),
                                   op.reversed, NewKey(k))]

\* An entry with Amount and amount was cleaned: of its three keys the
\* result has two fields, and amount holds the value listed last.
C28_Witness ==
    /\ CleanReturned
    /\ ~op.reversed
    /\ {Key.Amount, Key.amount} \subseteq DOMAIN op.entry
    /\ Cardinality(OtherKeys(op.entry)) = 3
    /\ Cardinality(OtherFields(DOMAIN op.val)) = 2
    /\ op.val[Key.amount] = op.entry[Key.amount]
    /\ op.val[Key.amount] # op.entry[Key.Amount]

====
